---- MODULE Spec2Model ----
(***************************************************************************)
(* A model of the HFT client: the Market Data Store (MarketDataManager),   *)
(* the Risk Engine (RiskManager), the Strategy Loop (StrategyManager) and  *)
(* the Exchange Session (DeribitClient).                                   *)
(*                                                                         *)
(* Prices, sizes and money amounts are C++ doubles in the source; the      *)
(* model draws them from small sets of integers, on which double           *)
(* arithmetic is exact.  Wall-clock time is counted in minutes.            *)
(***************************************************************************)
EXTENDS Integers, Sequences, FiniteSets, TLC

VARIABLES
    \* ---- ConfigManager
    trading_config_,    \* ConfigManager::trading_config_
    \* ---- RiskManager
    positions_,         \* std::map<std::string, Position>
    risk_metrics_,      \* RiskMetrics
    risk_callback_,     \* TRUE iff a risk violation callback is registered
    lastRisk,           \* observation: the last RiskManager/ConfigManager call,
                        \* its arguments, return value and callback invocations
    riskRepeat          \* observation: TRUE iff the last call was a checkOrderRisk that
                        \* repeated the arguments of the checkOrderRisk call just before it

    ,
    \* ---- MarketDataManager
    market_data_,       \* std::map<std::string, MarketData>
    data_queue_,        \* std::queue<MarketData>
    subscribers_,       \* std::map<std::string, std::vector<callback>>
    running_,           \* std::atomic<bool>
    data_mutex_,        \* "free", or the thread that holds the mutex
    pm_pc,              \* where the processMarketData thread stands
    pm_data,            \* the local `data` of processMarketData
    recent_trades,      \* the function-static vector of getRecentTrades
    now,                \* std::chrono::system_clock::now(), in minutes
    lastTrades,         \* observation: the last getRecentTrades call and its result
    added,              \* observation: the number of addTrade calls per instrument
    lastBook,           \* observation: the book last applied per instrument
    evicted,            \* observation: instruments erased by cleanupOldData since
                        \* their last book was applied
    writer_pc,          \* where a writer thread stands inside updateOrderBook
    writer_arg,         \* the book that writer was called with
    reader_pc,          \* where a reader thread stands after its getter returned
    reader_ref,         \* the instrument whose entry the reader's reference names
    reader_view,        \* what the reader has read through the reference
    lastQuery,          \* observation: the last price query, its instrument and
                        \* what it returned or threw
    \* ---- StrategyManager
    strategies_,        \* std::map<std::string, StrategyConfig>
    strategy_metrics_,  \* std::map<std::string, StrategyMetrics>
    trade_callback_,    \* TRUE when a trade callback is registered
    events,             \* observation: the risk checks and trades of the last
                        \* subscriber notification, in program order
    lock_log,           \* observation: the mutexes locked during the last subscriber
                        \* notification, each with the mutexes its thread held then
    invoked,            \* observation: the callbacks invoked by the last subscriber
                        \* notification, in order, and whether each threw
    \* ---- DeribitClient
    is_connected_,
    error_callback_,    \* TRUE when the callback is registered
    order_callback_,
    position_callback_,
    sent,               \* the frames handed to websocket_->send, in order
    crashed,            \* TRUE once the process was terminated
    lastFrame,          \* observation: the last inbound frame and what it caused
    close_pc,           \* where the close handler of the socket stands
    connection,         \* observation: the number of connections established
    errors,             \* observation: the kinds of message given to error_callback_
    calls,              \* observation: the order actions called, with what each
                        \* returned to its caller
    responses,          \* observation: <<connection, id>> of the RPC responses handled
    subscribed,         \* observation: the channels asked for on the connection in use
    requested,          \* observation: the channels the application subscribed to
    order_status,       \* observation: per order id, the status last given to
                        \* order_callback_
    approved,           \* observation: the tracked orders that checkOrderRisk
                        \* approved so far
    \* ---- LatencyModule
    latency_data_,      \* std::map<std::string, std::vector<Duration>>
    recorded,           \* observation: per operation, the samples recorded since
                        \* the last reset
    lastStats,          \* observation: the last statistics query and the
                        \* LatencyStats it returned
    \* ---- ConfigManager (trading_config_ is declared with the risk engine)
    network_config_,    \* ConfigManager::network_config_
    performance_config_, \* ConfigManager::performance_config_
    \* ---- Benchmark
    operations_,        \* std::map<std::string, OperationData>: latencies,
                        \* success_count, failure_count
    op_open,            \* observation: per operation name, whether an operation
                        \* is under way and whether an error was recorded for it
    op_ended,           \* observation: per operation name, the operations ended
                        \* without and with a recorded error
    real_time_monitoring_, \* bool
    metrics_mutex_,     \* "free", or the call blocked for ever while holding it
    lastBench,          \* observation: the last endOperation / getLatencyMetrics
                        \* call and how it ended
    \* ---- ErrorHandler
    recovery_actions_,  \* std::vector<RecoveryAction>, kept sorted by priority
    recovery_enabled_,  \* bool
    error_count_,       \* size_t
    lastLog,            \* observation: the last logError call, how it ended and
                        \* the recovery attempts it made, in order
    \* ---- WebSocketServer
    server_running_,    \* WebSocketServer::running_ (std::atomic<bool>)
    worker_pc,          \* per worker thread, where it is in its loop
    queue_mutex_,       \* "free" or the worker that holds it
    message_queue_,     \* std::queue<json>
    subscriptions_,     \* symbol -> set of clients
    stop_pc,            \* where the thread that called stop() is
    lastCall,           \* observation: the last start() / stop() call and
                        \* whether the server was running when it was made
    \* ---- DeribitClient::shutdown
    shutdown_at,        \* observation: the connection that shutdown() closed, 0
                        \* while shutdown() has not been called
    \* ---- LatencyModule::setHistorySize / getHistoricalStats
    max_history_size_,  \* size_t: the capacity of every window
    lastHist            \* observation: the last getHistoricalStats call and how
                        \* it ended

riskVars == <<trading_config_, positions_, risk_metrics_, risk_callback_, lastRisk,
              riskRepeat, approved>>
readerVars == <<writer_pc, writer_arg, reader_pc, reader_ref, reader_view, lastQuery>>
storeVars == <<market_data_, data_queue_, subscribers_, running_, data_mutex_, pm_pc,
               pm_data, recent_trades, now, lastTrades, added, lastBook, evicted,
               readerVars>>

stratVars == <<strategies_, strategy_metrics_, trade_callback_, events, lock_log,
               invoked>>
channelVars == <<close_pc, connection, errors, calls, responses, subscribed, requested,
                 order_status>>
clientVars == <<is_connected_, error_callback_, order_callback_, position_callback_, sent,
                crashed, lastFrame, channelVars>>
latencyVars == <<latency_data_, recorded, lastStats>>
configVars == <<network_config_, performance_config_>>
benchVars == <<operations_, op_open, op_ended, real_time_monitoring_, metrics_mutex_,
               lastBench>>
handlerVars == <<recovery_actions_, recovery_enabled_, error_count_, lastLog>>
serverVars == <<server_running_, worker_pc, queue_mutex_, message_queue_, subscriptions_,
                stop_pc, lastCall>>
sessionVars == <<shutdown_at>>
historyVars == <<max_history_size_, lastHist>>
moreVars == <<handlerVars, serverVars, sessionVars, historyVars>>
toolVars == <<latencyVars, configVars, benchVars, moreVars>>
nonRiskVars == <<storeVars, stratVars, clientVars, toolVars>>

vars == <<riskVars, storeVars, stratVars, clientVars, toolVars>>

Instruments == {"BTC-PERPETUAL", "ETH-PERPETUAL"}

Abs(x) == IF x < 0 THEN -x ELSE x

(***************************************************************************)
(* ConfigManager                                                           *)
(***************************************************************************)
DefaultMaxPositionSize == 100
DefaultMaxOrderSize == 10
DefaultMaxLossPerTrade == 1000
DefaultMaxDailyLoss == 5000

loadDefaultConfig ==
    [max_position_size  |-> DefaultMaxPositionSize,
     max_order_size     |-> DefaultMaxOrderSize,
     max_loss_per_trade |-> DefaultMaxLossPerTrade,
     max_daily_loss     |-> DefaultMaxDailyLoss]

\* validateConfig throws iff one of the trading limits is not positive
validateConfig(config) ==
    ~(config.max_position_size <= 0 \/ config.max_order_size <= 0
      \/ config.max_loss_per_trade <= 0 \/ config.max_daily_loss <= 0)

\* the network and performance settings the model keeps, as loadDefaultConfig
\* sets them
DefaultNetworkConfig == [connection_timeout_ms |-> 5000, max_reconnect_attempts |-> 5]
DefaultPerformanceConfig == [max_queue_size |-> 10000, batch_size |-> 100]
\* validateConfig, second and third test
validateNetwork(config) ==
    ~(config.connection_timeout_ms <= 0 \/ config.max_reconnect_attempts < 0)
validatePerformance(config) ==
    ~(config.max_queue_size <= 0 \/ config.batch_size <= 0)
\* validateConfig returns without throwing
Validates(trading, network, performance) ==
    validateConfig(trading) /\ validateNetwork(network) /\ validatePerformance(performance)

\* the configurations handed to setTradingConfig: the default one and one
\* whose position limit lies under its order limit
TradingConfigs ==
    {loadDefaultConfig, [loadDefaultConfig EXCEPT !.max_position_size = 5]}

(***************************************************************************)
(* RiskManager                                                             *)
(***************************************************************************)
Sides == {"buy", "sell", "hold"}
OrderSizes == {1, 10, 11, -1}
OrderPrices == {10, 60, 101}

PositionValues ==
    {[instrument |-> i, size |-> v[1], avg_price |-> v[2], unrealized_pnl |-> v[3]] :
        i \in Instruments, v \in {<<1, 30, 0>>, <<-2, 60, 7>>}}
MetricsValues ==
    {[total_exposure |-> 0, daily_pnl |-> 0, total_trades |-> 0,
      winning_trades |-> 0, win_rate |-> <<0, 1>>],
     [total_exposure |-> 50, daily_pnl |-> -4500, total_trades |-> 2,
      winning_trades |-> 1, win_rate |-> <<0, 1>>]}

\* an observation record: every operation fills the fields it has
\* the orders a caller asks the exchange session to place
OrderRequests ==
    {[instrument |-> "BTC-PERPETUAL", side |-> "buy", size |-> 1, price |-> 60,
      type |-> "limit"],
     [instrument |-> "BTC-PERPETUAL", side |-> "sell", size |-> 11, price |-> 60,
      type |-> "limit"]}
TrackedOrder(instrument, size, price, side) ==
    [instrument |-> instrument, size |-> size, price |-> price, side |-> side]
TrackedOrders ==
    {TrackedOrder(r.instrument, r.size, r.price, r.side) : r \in OrderRequests}

Obs(op, instrument, size, price, side, result, callbacks, evaluated) ==
    [op |-> op, instrument |-> instrument, size |-> size, price |-> price,
     side |-> side, result |-> result, callbacks |-> callbacks, evaluated |-> evaluated]
NoObs == Obs("none", "", 0, 0, "", FALSE, <<>>, <<>>)

RECURSIVE SumExposure(_, _)
SumExposure(positions, keys) ==
    IF keys = {} THEN 0
    ELSE LET k == CHOOSE x \in keys : TRUE
         IN  Abs(positions[k].size * positions[k].avg_price)
             + SumExposure(positions, keys \ {k})

checkPositionLimit(instrument, size) ==
    IF Abs(size) > trading_config_.max_position_size THEN FALSE
    ELSE IF Abs(size) > trading_config_.max_order_size THEN FALSE
    ELSE TRUE

\* checkOrderRisk, lines 53-58: the loss an order may cause
potential_loss(size, price, side) ==
    IF side = "buy" THEN size * price
    ELSE IF side = "sell" THEN size * price
    ELSE 0

checkLossLimit(loss) == loss <= trading_config_.max_loss_per_trade

checkDailyLossLimit(loss) ==
    (risk_metrics_.daily_pnl - loss) >= -trading_config_.max_daily_loss

checkExposureLimit(exposure) == exposure <= trading_config_.max_position_size

\* notifyRiskViolation: the callback invocations a violation causes
notifyRiskViolation(instrument, reason) ==
    IF risk_callback_ THEN << <<instrument, reason>> >> ELSE <<>>

\* checkOrderRisk without its early returns: every failing sub-check notifies
checkOrderRisk_noReturn(instrument, size, price, side) ==
    LET loss == potential_loss(size, price, side)
        new_exposure == risk_metrics_.total_exposure + loss
        v1 == IF checkPositionLimit(instrument, size) THEN <<>>
              ELSE notifyRiskViolation(instrument, "Position limit exceeded")
        v2 == IF checkLossLimit(loss) THEN <<>>
              ELSE notifyRiskViolation(instrument, "Loss limit exceeded")
        v3 == IF checkDailyLossLimit(loss) THEN <<>>
              ELSE notifyRiskViolation(instrument, "Daily loss limit exceeded")
        v4 == IF checkExposureLimit(new_exposure) THEN <<>>
              ELSE notifyRiskViolation(instrument, "Exposure limit exceeded")
    IN  [result |-> checkPositionLimit(instrument, size) /\ checkLossLimit(loss)
                    /\ checkDailyLossLimit(loss) /\ checkExposureLimit(new_exposure),
         callbacks |-> v1 \o v2 \o v3 \o v4,
         evaluated |-> <<"position", "loss", "daily", "exposure">>]

\* The body of checkOrderRisk: its return value, the callback invocations it
\* makes and the sub-checks it evaluates, in order.
checkOrderRisk(instrument, size, price, side) ==
    LET loss == potential_loss(size, price, side)
        new_exposure == risk_metrics_.total_exposure + loss
    IN  IF ~checkPositionLimit(instrument, size)
        THEN [result |-> FALSE,
              callbacks |-> notifyRiskViolation(instrument, "Position limit exceeded"),
              evaluated |-> <<"position">>]
        ELSE IF ~checkLossLimit(loss)
        THEN [result |-> FALSE,
              callbacks |-> notifyRiskViolation(instrument, "Loss limit exceeded"),
              evaluated |-> <<"position", "loss">>]
        ELSE IF ~checkDailyLossLimit(loss)
        THEN [result |-> FALSE,
              callbacks |-> notifyRiskViolation(instrument, "Daily loss limit exceeded"),
              evaluated |-> <<"position", "loss", "daily">>]
        ELSE IF ~checkExposureLimit(new_exposure)
        THEN [result |-> FALSE,
              callbacks |-> notifyRiskViolation(instrument, "Exposure limit exceeded"),
              evaluated |-> <<"position", "loss", "daily", "exposure">>]
        ELSE [result |-> TRUE, callbacks |-> <<>>,
              evaluated |-> <<"position", "loss", "daily", "exposure">>]

\* a checkOrderRisk that books the order's exposure when it approves
RiskStateAfterCheck_reserve(instrument, size, price, side) ==
    /\ positions_' = positions_
    /\ risk_metrics_' =
         IF checkOrderRisk(instrument, size, price, side).result
         THEN [risk_metrics_ EXCEPT
                  !.total_exposure = @ + potential_loss(size, price, side)]
         ELSE risk_metrics_

\* what a checkOrderRisk call leaves in the risk state
RiskStateAfterCheck(instrument, size, price, side) ==
    /\ positions_' = positions_
    /\ risk_metrics_' = risk_metrics_

CheckOrderRisk(instrument, size, price, side) ==
    LET r == checkOrderRisk(instrument, size, price, side)
    IN  /\ lastRisk' = Obs("checkOrderRisk", instrument, size, price, side,
                           r.result, r.callbacks, r.evaluated)
        /\ riskRepeat' = (lastRisk.op = "checkOrderRisk"
                          /\ <<lastRisk.instrument, lastRisk.size, lastRisk.price, lastRisk.side>>
                             = <<instrument, size, price, side>>)
        /\ RiskStateAfterCheck(instrument, size, price, side)
        /\ approved' = IF r.result
                       THEN approved \cup ({TrackedOrder(instrument, size, price, side)}
                                             \cap TrackedOrders)
                       ELSE approved
        /\ UNCHANGED <<trading_config_, risk_callback_, nonRiskVars>>

\* positions_[position.instrument] = position
StorePosition(positions, position) ==
    [k \in DOMAIN positions \cup {position.instrument} |->
        IF k = position.instrument THEN position ELSE positions[k]]

\* an updatePosition that adds the new notional to the running total
updatePosition_accumulate(position) ==
    /\ positions_' = StorePosition(positions_, position)
    /\ risk_metrics_' =
         [risk_metrics_ EXCEPT
             !.total_exposure = @ + Abs(position.size * position.avg_price)]

updatePosition(position) ==
    LET stored == StorePosition(positions_, position)
    IN  /\ positions_' = stored
        /\ risk_metrics_' =
             [risk_metrics_ EXCEPT !.total_exposure = SumExposure(stored, DOMAIN stored)]

UpdatePosition(position) ==
    /\ updatePosition(position)
    \* result: whether the instrument held a position before the call
    /\ lastRisk' = Obs("updatePosition", position.instrument, position.size,
                       position.avg_price, "", position.instrument \in DOMAIN positions_,
                       <<>>, <<>>)
    /\ riskRepeat' = FALSE
    /\ UNCHANGED <<trading_config_, risk_callback_, approved, nonRiskVars>>

updateRiskMetrics(metrics) ==
    risk_metrics_' =
        IF metrics.total_trades > 0
        THEN [metrics EXCEPT !.win_rate = <<metrics.winning_trades, metrics.total_trades>>]
        ELSE metrics

UpdateRiskMetrics(metrics) ==
    /\ updateRiskMetrics(metrics)
    /\ lastRisk' = Obs("updateRiskMetrics", "", 0, 0, "", TRUE, <<>>, <<>>)
    /\ riskRepeat' = FALSE
    /\ UNCHANGED <<trading_config_, positions_, risk_callback_, approved, nonRiskVars>>

SetRiskCallback(registered) ==
    /\ risk_callback_' = registered
    /\ UNCHANGED <<trading_config_, positions_, risk_metrics_, lastRisk, riskRepeat,
                   approved, nonRiskVars>>

\* setTradingConfig assigns first and validates afterwards: a refused
\* configuration stays assigned (result FALSE: the call threw)
SetTradingConfig(config) ==
    /\ trading_config_' = config
    /\ lastRisk' = Obs("setTradingConfig", "", 0, 0, "",
                       Validates(config, network_config_, performance_config_),
                       <<>>, <<>>)
    /\ riskRepeat' = FALSE
    /\ UNCHANGED <<positions_, risk_metrics_, risk_callback_, approved, nonRiskVars>>

\* setNetworkConfig / setPerformanceConfig: assign, then validateConfig
SetNetworkConfig(config) ==
    /\ network_config_' = config
    /\ lastRisk' = Obs("setNetworkConfig", "", 0, 0, "",
                       Validates(trading_config_, config, performance_config_),
                       <<>>, <<>>)
    /\ riskRepeat' = FALSE
    /\ UNCHANGED <<trading_config_, positions_, risk_metrics_, risk_callback_, approved,
                   performance_config_, latencyVars, benchVars, moreVars, storeVars,
                   stratVars, clientVars>>
SetPerformanceConfig(config) ==
    /\ performance_config_' = config
    /\ lastRisk' = Obs("setPerformanceConfig", "", 0, 0, "",
                       Validates(trading_config_, network_config_, config),
                       <<>>, <<>>)
    /\ riskRepeat' = FALSE
    /\ UNCHANGED <<trading_config_, positions_, risk_metrics_, risk_callback_, approved,
                   network_config_, latencyVars, benchVars, moreVars, storeVars, stratVars,
                   clientVars>>

\* the members loadConfig assigns from a section, in the order it assigns them
TradingKeys == <<"max_position_size", "max_order_size", "max_loss_per_trade",
                 "max_daily_loss">>
NetworkKeys == <<"connection_timeout_ms", "max_reconnect_attempts">>
PerformanceKeys == <<"max_queue_size", "batch_size">>

\* config.member = section["member"] for each member in turn. The section is
\* a const json: operator[] on a key it does not hold is undefined; a build
\* that yields null throws on the conversion to a number, one that asserts
\* ends the process. The members assigned before stay assigned.
RECURSIVE AssignMembers(_, _, _, _, _)
AssignMembers(config, section, keys, k, ub) ==
    IF k > Len(keys) THEN [config |-> config, st |-> "ok"]
    ELSE IF keys[k] \notin DOMAIN section
    THEN [config |-> config, st |-> IF ub = "abort" THEN "abort" ELSE "threw"]
    ELSE AssignMembers([config EXCEPT ![keys[k]] = section[keys[k]]], section, keys,
                       k + 1, ub)

\* the section of a document, or the current configuration when the document
\* does not contain the section
LoadSection(config, file, name, keys, ub) ==
    IF name \in file.sections THEN AssignMembers(config, file[name], keys, 1, ub)
    ELSE [config |-> config, st |-> "ok"]

\* The body of loadConfig: the three configurations it leaves and how it ends
\* ("true", "false", or "abort" when the process ends inside it).
loadConfig(file, ub) ==
    LET unchanged == [trading |-> trading_config_, network |-> network_config_,
                      performance |-> performance_config_]
        t == LoadSection(trading_config_, file, "trading", TradingKeys, ub)
        n == LoadSection(network_config_, file, "network", NetworkKeys, ub)
        p == LoadSection(performance_config_, file, "performance", PerformanceKeys, ub)
    IN  IF file.state # "json" THEN unchanged @@ [st |-> "false"]
        ELSE IF t.st # "ok"
        THEN [unchanged EXCEPT !.trading = t.config]
             @@ [st |-> IF t.st = "abort" THEN "abort" ELSE "false"]
        ELSE IF n.st # "ok"
        THEN [unchanged EXCEPT !.trading = t.config, !.network = n.config]
             @@ [st |-> IF n.st = "abort" THEN "abort" ELSE "false"]
        ELSE IF p.st # "ok"
        THEN [trading |-> t.config, network |-> n.config, performance |-> p.config,
              st |-> IF p.st = "abort" THEN "abort" ELSE "false"]
        ELSE [trading |-> t.config, network |-> n.config, performance |-> p.config,
              st |-> IF Validates(t.config, n.config, p.config)
                     THEN "true" ELSE "false"]

LoadConfig(file, ub) ==
    /\ trading_config_' = loadConfig(file, ub).trading
    /\ network_config_' = loadConfig(file, ub).network
    /\ performance_config_' = loadConfig(file, ub).performance
    /\ lastRisk' = Obs(IF loadConfig(file, ub).st = "abort" THEN "abort" ELSE "loadConfig",
                       "", 0, 0, "", loadConfig(file, ub).st = "true", <<>>, <<>>)
    /\ riskRepeat' = FALSE
    /\ UNCHANGED <<positions_, risk_metrics_, risk_callback_, approved,
                   latencyVars, benchVars, moreVars, storeVars, stratVars, clientVars>>

ConfigInit ==
    /\ network_config_ = DefaultNetworkConfig
    /\ performance_config_ = DefaultPerformanceConfig



(***************************************************************************)
(* MarketDataManager                                                       *)
(***************************************************************************)
max_trades == 1000
max_age == 5

\* bounds of the model
MaxQueue == 2       \* data_queue_ entries waiting for the processing thread
MaxTicks == 2       \* clock advances, of max_age minutes each
MaxAdded == 1       \* addTrade calls per instrument in Spec and SpecStore

Level(price, size) == [price |-> price, size |-> size]
OrderBook(instrument, bids, asks) == [instrument |-> instrument, bids |-> bids, asks |-> asks]
\* a value-initialised MarketData: what market_data_[key] creates for a new key
DefaultMarketData ==
    [orderbook |-> OrderBook("", <<>>, <<>>), trades |-> <<>>, last_price |-> 0,
     timestamp |-> 0]

\* the sides a caller passes: sorted, unsorted and crossed, one side empty
BookSides ==
    {<< <<Level(50, 1), Level(49, 2)>>, <<Level(51, 1), Level(52, 2)>> >>,
     << <<Level(49, 2), Level(50, 1)>>, <<Level(48, 1)>> >>,
     << <<>>, <<Level(51, 1)>> >>}
BookValues ==
    {OrderBook("BTC-PERPETUAL", b[1], b[2]) : b \in BookSides}
    \cup {OrderBook("ETH-PERPETUAL", <<Level(30, 1)>>, <<Level(31, 1)>>)}

\* trade.timestamp is the arrival number of the trade on its instrument
Trade(instrument, price, size, side, seq) ==
    [instrument |-> instrument, price |-> price, size |-> size, side |-> side,
     timestamp |-> seq]

\* std::map operator[] followed by an assignment
MapPut(map, key, value) ==
    [k \in DOMAIN map \cup {key} |-> IF k = key THEN value ELSE map[k]]
\* market_data_[key]: the stored entry, or a value-initialised new one
MapEntry(key) ==
    IF key \in DOMAIN market_data_ THEN market_data_[key] ELSE DefaultMarketData

updateOrderBook_keepFirst(orderbook) ==
    LET market_data == IF orderbook.instrument \in DOMAIN market_data_
                       THEN [market_data_[orderbook.instrument] EXCEPT !.timestamp = now]
                       ELSE [DefaultMarketData EXCEPT
                                !.orderbook = orderbook, !.timestamp = now]
    IN  /\ market_data_' = MapPut(market_data_, orderbook.instrument, market_data)
        /\ data_queue_' = Append(data_queue_, market_data)

updateOrderBook(orderbook) ==
    LET market_data == [MapEntry(orderbook.instrument) EXCEPT
                            !.orderbook = orderbook, !.timestamp = now]
    IN  /\ market_data_' = MapPut(market_data_, orderbook.instrument, market_data)
        /\ data_queue_' = Append(data_queue_, market_data)

KeepRecentTrades_dropNewest(trades) ==
    IF Len(trades) > max_trades THEN SubSeq(trades, 1, max_trades) ELSE trades

\* addTrade, lines 49-53: erase the oldest trades beyond max_trades
KeepRecentTrades(trades) ==
    IF Len(trades) > max_trades
    THEN SubSeq(trades, (Len(trades) - max_trades) + 1, Len(trades))
    ELSE trades

addTrade(trade) ==
    LET market_data == [MapEntry(trade.instrument) EXCEPT
                            !.trades = KeepRecentTrades(Append(@, trade)),
                            !.timestamp = now]
    IN  /\ market_data_' = MapPut(market_data_, trade.instrument, market_data)
        /\ data_queue_' = Append(data_queue_, market_data)

updateMarketData(data) ==
    /\ market_data_' = MapPut(market_data_, data.orderbook.instrument, data)
    /\ data_queue_' = Append(data_queue_, data)

\* the public calls; each holds data_mutex_ for its whole body
UpdateOrderBook(orderbook) ==
    /\ data_mutex_ = "free"
    /\ Len(data_queue_) < MaxQueue
    /\ updateOrderBook(orderbook)
    /\ lastBook' = MapPut(lastBook, orderbook.instrument, orderbook)
    /\ evicted' = evicted \ {orderbook.instrument}
    /\ UNCHANGED <<readerVars, subscribers_, running_, data_mutex_, pm_pc, pm_data, recent_trades,
                   now, lastTrades, added>>

AddTrade(instrument, price, size, side) ==
    /\ data_mutex_ = "free"
    /\ Len(data_queue_) < MaxQueue
    /\ addTrade(Trade(instrument, price, size, side, added[instrument] + 1))
    /\ added' = [added EXCEPT ![instrument] = @ + 1]
    /\ UNCHANGED <<readerVars, subscribers_, running_, data_mutex_, pm_pc, pm_data, recent_trades,
                   now, lastTrades, lastBook, evicted>>

UpdateMarketData(data) ==
    /\ data_mutex_ = "free"
    /\ Len(data_queue_) < MaxQueue
    /\ updateMarketData(data)
    /\ lastBook' = MapPut(lastBook, data.orderbook.instrument, data.orderbook)
    /\ evicted' = evicted \ {data.orderbook.instrument}
    /\ UNCHANGED <<readerVars, subscribers_, running_, data_mutex_, pm_pc, pm_data, recent_trades,
                   now, lastTrades, added>>

\* getMarketData / getOrderBook: what a reader gets when the call returns
getOrderBook(instrument) ==
    IF instrument \notin DOMAIN market_data_
    THEN [threw |-> TRUE, orderbook |-> DefaultMarketData.orderbook]
    ELSE [threw |-> FALSE, orderbook |-> market_data_[instrument].orderbook]

getBestBid_lastLevel(instrument) ==
    LET r == getOrderBook(instrument)
    IN  IF r.threw \/ r.orderbook.bids = <<>> THEN [threw |-> TRUE, price |-> 0]
        ELSE [threw |-> FALSE, price |-> r.orderbook.bids[Len(r.orderbook.bids)].price]

getBestBid(instrument) ==
    LET r == getOrderBook(instrument)
    IN  IF r.threw \/ r.orderbook.bids = <<>> THEN [threw |-> TRUE, price |-> 0]
        ELSE [threw |-> FALSE, price |-> r.orderbook.bids[1].price]

getBestAsk(instrument) ==
    LET r == getOrderBook(instrument)
    IN  IF r.threw \/ r.orderbook.asks = <<>> THEN [threw |-> TRUE, price |-> 0]
        ELSE [threw |-> FALSE, price |-> r.orderbook.asks[1].price]

\* getRecentTrades: the trades it returns and what it leaves in its static vector
getRecentTrades(instrument, count) ==
    IF instrument \notin DOMAIN market_data_
    THEN [threw |-> TRUE, trades |-> <<>>, static |-> recent_trades]
    ELSE LET trades == market_data_[instrument].trades
         IN  IF Len(trades) <= count
             THEN [threw |-> FALSE, trades |-> trades, static |-> recent_trades]
             ELSE LET recent == SubSeq(trades, (Len(trades) - count) + 1, Len(trades))
                  IN  [threw |-> FALSE, trades |-> recent, static |-> recent]

GetRecentTrades(instrument, count) ==
    /\ data_mutex_ = "free"
    /\ LET r == getRecentTrades(instrument, count)
       IN  /\ recent_trades' = r.static
           /\ lastTrades' = [instrument |-> instrument, count |-> count,
                             threw |-> r.threw, trades |-> r.trades]
    /\ UNCHANGED <<readerVars, market_data_, data_queue_, subscribers_, running_, data_mutex_, pm_pc,
                   pm_data, now, added, lastBook, evicted>>

\* cleanupOldData: the entries that stay
cleanupOldData(market_data) ==
    LET kept == {k \in DOMAIN market_data : ~(now - market_data[k].timestamp > max_age)}
    IN  [k \in kept |-> market_data[k]]

\* initialize: starts the processing thread
StoreInitialize ==
    /\ ~running_
    /\ pm_pc = "stopped"
    /\ running_' = TRUE
    /\ pm_pc' = "loop"
    /\ UNCHANGED <<readerVars, market_data_, data_queue_, subscribers_, data_mutex_, pm_data,
                   recent_trades, now, lastTrades, added, lastBook, evicted>>

ProcessPop_back ==
    /\ pm_pc = "loop" /\ running_
    /\ data_mutex_ = "free"
    /\ data_queue_ # <<>>
    /\ pm_data' = data_queue_[Len(data_queue_)]
    /\ data_queue_' = SubSeq(data_queue_, 1, Len(data_queue_) - 1)
    /\ pm_pc' = "notify"
    /\ UNCHANGED <<readerVars, market_data_, subscribers_, running_, data_mutex_, recent_trades,
                   now, lastTrades, added, lastBook, evicted>>

\* processMarketData, lines 132-141: take the front of the queue
ProcessPop ==
    /\ pm_pc = "loop" /\ running_
    /\ data_mutex_ = "free"
    /\ data_queue_ # <<>>
    /\ pm_data' = Head(data_queue_)
    /\ data_queue_' = Tail(data_queue_)
    /\ pm_pc' = "notify"
    /\ UNCHANGED <<readerVars, market_data_, subscribers_, running_, data_mutex_, recent_trades,
                   now, lastTrades, added, lastBook, evicted>>

\* processMarketData, line 144
ProcessCleanup ==
    /\ pm_pc = "cleanup"
    /\ data_mutex_ = "free"
    /\ market_data_' = cleanupOldData(market_data_)
    /\ evicted' = evicted \cup (DOMAIN market_data_ \ DOMAIN market_data_')
    /\ pm_data' = DefaultMarketData     \* `data` is local to one iteration
    /\ pm_pc' = "loop"
    /\ UNCHANGED <<readerVars, data_queue_, subscribers_, running_, data_mutex_,
                   recent_trades, now, lastTrades, added, lastBook>>

\* the clock advances by max_age minutes
Tick ==
    /\ now < MaxTicks * max_age
    /\ now' = now + max_age
    /\ UNCHANGED <<readerVars, market_data_, data_queue_, subscribers_, running_, data_mutex_, pm_pc,
                   pm_data, recent_trades, lastTrades, added, lastBook, evicted>>

\* no price query was made yet
NoQuery == [fn |-> "none", instrument |-> "", threw |-> FALSE, twice |-> 0]
\* no writer is inside updateOrderBook and no reader holds a reference
NoView == [bids |-> <<>>, asks |-> <<>>, complete |-> FALSE]
ReaderInit ==
    /\ writer_pc = "idle"
    /\ writer_arg = DefaultMarketData.orderbook
    /\ reader_pc = "idle"
    /\ reader_ref = ""
    /\ reader_view = NoView
    /\ lastQuery = NoQuery

\* updateOrderBook step by step, for readers that run beside it: the lock and
\* market_data_[orderbook.instrument], lines 33-35
BeginUpdateOrderBook(orderbook) ==
    /\ writer_pc = "idle"
    /\ data_mutex_ = "free"
    /\ Len(data_queue_) < MaxQueue
    /\ data_mutex_' = "updateOrderBook"
    /\ writer_arg' = orderbook
    /\ market_data_' = MapPut(market_data_, orderbook.instrument,
                              MapEntry(orderbook.instrument))
    /\ writer_pc' = "bids"
    /\ UNCHANGED <<data_queue_, subscribers_, running_, pm_pc, pm_data, recent_trades,
                   now, lastTrades, added, lastBook, evicted, reader_pc, reader_ref,
                   reader_view, lastQuery>>

\* market_data.orderbook = orderbook, line 36: the copy assignment of the
\* struct assigns the members in their order, bids first
AssignBids ==
    /\ writer_pc = "bids"
    /\ market_data_' =
          [market_data_ EXCEPT ![writer_arg.instrument].orderbook.bids = writer_arg.bids]
    /\ writer_pc' = "asks"
    /\ UNCHANGED <<data_queue_, subscribers_, running_, data_mutex_, pm_pc, pm_data,
                   recent_trades, now, lastTrades, added, lastBook, evicted, writer_arg,
                   reader_pc, reader_ref, reader_view, lastQuery>>

\* the rest of line 36, and lines 37-39: timestamp, push, unlock
AssignAsks ==
    /\ writer_pc = "asks"
    /\ LET market_data == [market_data_[writer_arg.instrument] EXCEPT
                              !.orderbook = writer_arg, !.timestamp = now]
       IN  /\ market_data_' = MapPut(market_data_, writer_arg.instrument, market_data)
           /\ data_queue_' = Append(data_queue_, market_data)
    /\ data_mutex_' = "free"
    /\ writer_pc' = "idle"
    /\ lastBook' = MapPut(lastBook, writer_arg.instrument, writer_arg)
    /\ evicted' = evicted \ {writer_arg.instrument}
    /\ UNCHANGED <<subscribers_, running_, pm_pc, pm_data, recent_trades, now,
                   lastTrades, added, writer_arg, reader_pc, reader_ref, reader_view,
                   lastQuery>>

\* getOrderBook / getMarketData: the reader gets a reference to the stored
\* entry; the lock_guard is gone when the getter returns
GetOrderBook(instrument) ==
    /\ reader_pc = "idle"
    /\ data_mutex_ = "free"
    /\ ~getOrderBook(instrument).threw
    /\ reader_ref' = instrument
    /\ reader_view' = NoView
    /\ reader_pc' = "bids"
    /\ UNCHANGED <<market_data_, data_queue_, subscribers_, running_, data_mutex_, pm_pc,
                   pm_data, recent_trades, now, lastTrades, added, lastBook, evicted,
                   writer_pc, writer_arg, lastQuery>>

\* what a read through the reference can give: the member as it is stored now
\* or, when cleanupOldData erased the entry, anything (the reference dangles)
ReadOutcomes(member) ==
    IF reader_ref \in DOMAIN market_data_
    THEN {market_data_[reader_ref].orderbook[member]}
    ELSE {<<>>} \cup {b[member] : b \in BookValues}

\* the reader uses the book without the lock: first the bids, then the asks
ReadBids ==
    /\ reader_pc = "bids"
    /\ \E bids \in ReadOutcomes("bids") :
          reader_view' = [reader_view EXCEPT !.bids = bids]
    /\ reader_pc' = "asks"
    /\ UNCHANGED <<market_data_, data_queue_, subscribers_, running_, data_mutex_, pm_pc,
                   pm_data, recent_trades, now, lastTrades, added, lastBook, evicted,
                   writer_pc, writer_arg, reader_ref, lastQuery>>

ReadAsks ==
    /\ reader_pc = "asks"
    /\ \E asks \in ReadOutcomes("asks") :
          reader_view' = [reader_view EXCEPT !.asks = asks, !.complete = TRUE]
    /\ reader_pc' = "idle"
    /\ UNCHANGED <<market_data_, data_queue_, subscribers_, running_, data_mutex_, pm_pc,
                   pm_data, recent_trades, now, lastTrades, added, lastBook, evicted,
                   writer_pc, writer_arg, reader_ref, lastQuery>>

StoreInit ==
    /\ market_data_ = <<>>
    /\ data_queue_ = <<>>
    /\ subscribers_ = <<>>
    /\ running_ = FALSE
    /\ data_mutex_ = "free"
    /\ pm_pc = "stopped"
    /\ pm_data = DefaultMarketData
    /\ recent_trades = <<>>
    /\ now = 0
    /\ lastTrades = [instrument |-> "", count |-> 0, threw |-> FALSE, trades |-> <<>>]
    /\ added = [i \in Instruments |-> 0]
    /\ lastBook = <<>>
    /\ evicted = {}
    /\ ReaderInit

(***************************************************************************)
(* StrategyManager                                                         *)
(***************************************************************************)
MaxCallbacks == 1   \* callbacks registered per instrument

\* entry_threshold is in percent; the strategies a caller adds
StrategyConfigs ==
    {[name |-> "mean_reversion", instrument |-> "BTC-PERPETUAL", position_size |-> 1,
      entry_threshold |-> 1, max_trades_per_day |-> 1, enabled |-> TRUE],
     [name |-> "momentum", instrument |-> "BTC-PERPETUAL", position_size |-> 11,
      entry_threshold |-> 1, max_trades_per_day |-> 1, enabled |-> TRUE]}
\* the iteration order of strategies_, a std::map keyed by name
StrategyOrder == <<"mean_reversion", "momentum">>

\* what the outcome of locking data_mutex_ again on the thread that holds it
\* can be: std::mutex is not recursive, the behaviour is undefined
RelockOutcomes == {"deadlock", "throws", "proceeds"}

Event(ev, name, instrument, size, price, side, risk, notified) ==
    [ev |-> ev, name |-> name, order |-> TrackedOrder(instrument, size, price, side),
     risk |-> risk, notified |-> notified]
NoRisk == [result |-> FALSE, callbacks |-> <<>>, evaluated |-> <<>>]
EvalContext(metrics) ==
    [metrics |-> metrics, events |-> <<>>, status |-> "running", locks |-> {},
     held |-> {}, invoked |-> <<>>]
\* std::lock_guard on a mutex: the thread locks it while holding `held`
Acquire(ctx, mutex) ==
    [ctx EXCEPT !.locks = @ \cup {<<mutex, ctx.held>>}, !.held = @ \cup {mutex}]
Release(ctx, mutex) ==
    IF ctx.status = "blocked" THEN ctx ELSE [ctx EXCEPT !.held = @ \ {mutex}]

\* getMidPrice returns twice_mid / 2
getMidPrice(instrument) ==
    LET bid == getBestBid(instrument)
        ask == getBestAsk(instrument)
    IN  IF bid.threw \/ ask.threw THEN [threw |-> TRUE, twice_mid |-> 0]
        ELSE [threw |-> FALSE, twice_mid |-> bid.price + ask.price]

getSpread(instrument) ==
    LET bid == getBestBid(instrument)
        ask == getBestAsk(instrument)
    IN  IF ask.threw \/ bid.threw THEN [threw |-> TRUE, spread |-> 0]
        ELSE [threw |-> FALSE, spread |-> ask.price - bid.price]

\* a price query by any caller; `twice` is two times the double it returns, so
\* that the mean of two integer prices stays an integer
PriceQueries == {"getBestBid", "getBestAsk", "getMidPrice", "getSpread"}
QueryResult(fn, instrument) ==
    IF fn = "getBestBid"
    THEN [threw |-> getBestBid(instrument).threw,
          twice |-> 2 * getBestBid(instrument).price]
    ELSE IF fn = "getBestAsk"
    THEN [threw |-> getBestAsk(instrument).threw,
          twice |-> 2 * getBestAsk(instrument).price]
    ELSE IF fn = "getMidPrice"
    THEN [threw |-> getMidPrice(instrument).threw,
          twice |-> getMidPrice(instrument).twice_mid]
    ELSE [threw |-> getSpread(instrument).threw,
          twice |-> 2 * getSpread(instrument).spread]

PriceQuery(fn, instrument) ==
    /\ data_mutex_ = "free"
    /\ lastQuery' = [fn |-> fn, instrument |-> instrument,
                     threw |-> QueryResult(fn, instrument).threw,
                     twice |-> QueryResult(fn, instrument).twice]
    /\ UNCHANGED <<market_data_, data_queue_, subscribers_, running_, data_mutex_, pm_pc,
                   pm_data, recent_trades, now, lastTrades, added, lastBook, evicted,
                   writer_pc, writer_arg, reader_pc, reader_ref, reader_view>>

updateStrategyMetrics(metrics, name) ==
    [metrics EXCEPT ![name].total_trades = @ + 1]

executeTrade(ctx, strategy_name, size, price, side) ==
    [ctx EXCEPT !.metrics = updateStrategyMetrics(@, strategy_name),
                !.events = Append(@, Event("trade", strategy_name, "", size, price, side,
                                           NoRisk, trade_callback_))]

\* the decision of evaluateStrategy, line 154, on the result of checkOrderRisk
TradeAllowed_ungated(risk) == TRUE

TradeAllowed(risk) == risk.result

\* price_deviation = (last_price - mid_price) / mid_price, here as the fraction
\* deviation / twice_mid
evaluateStrategy(ctx, name, data, relock) ==
    LET config == strategies_[name]
        metrics == ctx.metrics[name]
        mid == getMidPrice(config.instrument)
        spread == getSpread(config.instrument)
        deviation == (2 * data.last_price) - mid.twice_mid
        size == config.position_size
        side == IF deviation > 0 THEN "sell" ELSE "buy"
        risk == checkOrderRisk(config.instrument, size, data.last_price, side)
        \* getMidPrice locks data_mutex_ in getMarketData
        relocked == [ctx EXCEPT !.locks = @ \cup {<<"data_mutex_", ctx.held>>}]
        \* checkOrderRisk locks risk_mutex_ for the length of the call
        checked == [Release(Acquire(relocked, "risk_mutex_"), "risk_mutex_") EXCEPT
                       !.events =
                           Append(@, Event("check", name, config.instrument, size,
                                           data.last_price, side, risk, FALSE))]
    IN  IF metrics.total_trades >= config.max_trades_per_day THEN ctx
        ELSE IF relock = "deadlock" THEN [relocked EXCEPT !.status = "blocked"]
        ELSE IF relock = "throws" \/ mid.threw \/ spread.threw
             THEN [relocked EXCEPT !.status = "threw"]
        ELSE IF Abs(deviation) * 100 > config.entry_threshold * mid.twice_mid
             THEN IF TradeAllowed(risk)
                  THEN executeTrade(checked, name, size, data.last_price, side)
                  ELSE checked
        ELSE relocked

RECURSIVE StrategyLoop(_, _, _, _, _)
StrategyLoop(ctx, names, instrument, data, relock) ==
    IF names = <<>> \/ ctx.status # "running" THEN ctx
    ELSE LET name == Head(names)
             evaluated ==
                 IF /\ name \in DOMAIN strategies_
                    /\ strategies_[name].enabled
                    /\ strategies_[name].instrument = instrument
                 THEN evaluateStrategy(ctx, name, data, relock)
                 ELSE ctx
         IN  StrategyLoop(evaluated, Tail(names), instrument, data, relock)

\* StrategyManager::processMarketData
processMarketData(ctx, instrument, data, relock) ==
    Release(StrategyLoop(Acquire(ctx, "strategy_mutex_"), StrategyOrder, instrument,
                         data, relock),
            "strategy_mutex_")

\* callback(data): the callback of the StrategyManager, or one of an application
\* that returns ("Listener") or throws ("Thrower")
Invoke(ctx, callback, data, relock) ==
    IF callback.owner = "StrategyManager"
    THEN processMarketData(ctx, callback.instrument, data, relock)
    ELSE [ctx EXCEPT !.status = IF callback.owner = "Thrower" THEN "threw" ELSE "running"]

Caught_rethrow(returned) == returned

\* notifySubscribers, lines 155-159: try { callback(data); } catch (...) { }
Caught(returned) ==
    IF returned.status = "threw" THEN [returned EXCEPT !.status = "running"] ELSE returned

\* MarketDataManager::notifySubscribers: the loop over the callbacks of the
\* instrument; it ends early only when a callback never returns or an
\* exception leaves the loop
RECURSIVE notifySubscribers(_, _, _, _)
notifySubscribers(ctx, callbacks, data, relock) ==
    IF callbacks = <<>> \/ ctx.status # "running" THEN ctx
    ELSE LET returned == Invoke(ctx, Head(callbacks), data, relock)
             logged == [Caught(returned) EXCEPT
                           !.invoked = Append(@, [callback |-> Head(callbacks),
                                                  threw |-> returned.status = "threw"])]
         IN  notifySubscribers(logged, Tail(callbacks), data, relock)

RECURSIVE ChecksOf(_)
\* the risk checks among the events, in order
ChecksOf(evs) ==
    IF evs = <<>> THEN <<>>
    ELSE (IF Head(evs).ev = "check" THEN <<Head(evs)>> ELSE <<>>) \o ChecksOf(Tail(evs))

SameOrder(a, b) ==
    <<a.instrument, a.size, a.price, a.side>> = <<b.instrument, b.size, b.price, b.side>>
CheckObs(e) ==
    Obs("checkOrderRisk", e.order.instrument, e.order.size, e.order.price, e.order.side,
        e.risk.result, e.risk.callbacks, e.risk.evaluated)

\* whether the last of the checks has the arguments of the call before it
RepeatsPrevious(checks) ==
    LET n == Len(checks)
        previous == IF n >= 2 THEN CheckObs(checks[n - 1]) ELSE lastRisk
    IN  previous.op = "checkOrderRisk" /\ SameOrder(previous, checks[n].order)

\* processMarketData of the store, line 143: notifySubscribers with its lock held
ProcessNotify(relock) ==
    /\ pm_pc = "notify"
    /\ data_mutex_ = "free"
    /\ LET instrument == pm_data.orderbook.instrument
           callbacks == IF instrument \in DOMAIN subscribers_
                        THEN subscribers_[instrument] ELSE <<>>
           ctx == notifySubscribers(Acquire(EvalContext(strategy_metrics_),
                                            "data_mutex_"),
                                    callbacks, pm_data, relock)
           checks == ChecksOf(ctx.events)
       IN  /\ strategy_metrics_' = ctx.metrics
           /\ events' = ctx.events
           /\ lock_log' = ctx.locks
           /\ invoked' = ctx.invoked
           /\ IF ctx.status = "blocked"
              THEN pm_pc' = "blocked" /\ data_mutex_' = "processMarketData"
              ELSE IF ctx.status = "threw"
                   \* an exception leaving the thread function: std::terminate
                   THEN pm_pc' = "terminated" /\ data_mutex_' = data_mutex_
                   ELSE pm_pc' = "cleanup" /\ data_mutex_' = data_mutex_
           /\ lastRisk' = IF checks = <<>> THEN lastRisk
                          ELSE CheckObs(checks[Len(checks)])
           /\ riskRepeat' = IF checks = <<>> THEN riskRepeat
                            ELSE RepeatsPrevious(checks)
           /\ approved' = approved \cup
                  ({checks[k].order : k \in {n \in 1..Len(checks) : checks[n].risk.result}}
                   \cap TrackedOrders)
    /\ UNCHANGED <<readerVars, market_data_, data_queue_, subscribers_, running_, pm_data,
                   recent_trades, now, lastTrades, added, lastBook, evicted>>
    /\ UNCHANGED <<strategies_, trade_callback_>>
    /\ UNCHANGED <<trading_config_, positions_, risk_metrics_, risk_callback_>>
    /\ UNCHANGED <<clientVars, toolVars>>

\* initialize: subscribes the manager to one instrument
StrategyInitialize ==
    LET instrument == "BTC-PERPETUAL"
        callbacks == IF instrument \in DOMAIN subscribers_
                     THEN subscribers_[instrument] ELSE <<>>
    IN  /\ data_mutex_ = "free"
        /\ Len(callbacks) < MaxCallbacks
        /\ subscribers_' =
             MapPut(subscribers_, instrument,
                    Append(callbacks, [owner |-> "StrategyManager",
                                       instrument |-> instrument]))
        /\ UNCHANGED <<readerVars, market_data_, data_queue_, running_, data_mutex_, pm_pc, pm_data,
                       recent_trades, now, lastTrades, added, lastBook, evicted>>
        /\ UNCHANGED stratVars

\* subscribeToMarketData by an application, with a callback that returns or
\* one that throws
MaxSubscribers == 2     \* callbacks an application registers per instrument
SubscribeToMarketData(instrument, owner) ==
    LET callbacks == IF instrument \in DOMAIN subscribers_
                     THEN subscribers_[instrument] ELSE <<>>
    IN  /\ data_mutex_ = "free"
        /\ Len(callbacks) < MaxSubscribers
        /\ subscribers_' =
             MapPut(subscribers_, instrument,
                    Append(callbacks, [owner |-> owner, instrument |-> instrument]))
        /\ UNCHANGED <<readerVars, market_data_, data_queue_, running_, data_mutex_, pm_pc,
                       pm_data, recent_trades, now, lastTrades, added, lastBook, evicted>>
        /\ UNCHANGED stratVars

AddStrategy(config) ==
    /\ config.name \notin DOMAIN strategies_
    /\ strategies_' = MapPut(strategies_, config.name, config)
    /\ strategy_metrics_' = MapPut(strategy_metrics_, config.name,
                                   [total_trades |-> 0, winning_trades |-> 0])
    /\ UNCHANGED <<trade_callback_, events, lock_log, invoked>>

EnableStrategy(name, enable) ==
    /\ name \in DOMAIN strategies_
    /\ strategies_' = [strategies_ EXCEPT ![name].enabled = enable]
    /\ UNCHANGED <<strategy_metrics_, trade_callback_, events, lock_log, invoked>>

SetTradeCallback(registered) ==
    /\ trade_callback_' = registered
    /\ UNCHANGED <<strategies_, strategy_metrics_, events, lock_log, invoked>>

StrategyInit ==
    /\ strategies_ = <<>>
    /\ strategy_metrics_ = <<>>
    /\ trade_callback_ = FALSE
    /\ events = <<>>
    /\ lock_log = {}
    /\ invoked = <<>>

(***************************************************************************)
(* DeribitClient                                                           *)
(***************************************************************************)
MaxSent == 3        \* frames handed to the socket

\* JSON values, tagged with their type
JNull == [t |-> "null"]
JNum(n) == [t |-> "number", n |-> n]
JStr(s) == [t |-> "string", s |-> s]
JArr(a) == [t |-> "array", a |-> a]
JObj(o) == [t |-> "object", o |-> o]
\* a text that nlohmann::json::parse rejects
Unparseable == [t |-> "invalid"]

\* the outcome of a step that can throw or terminate the process
Ok(v) == [st |-> "ok", v |-> v]
Throw == [st |-> "throw", v |-> <<>>]
Abort == [st |-> "abort", v |-> <<>>]

\* what undefined behaviour of a const operator[] can do: the assertion of the
\* library terminates the process, or the read yields a null value
UndefinedOutcomes == {"abort", "null"}
Undefined(ub) == IF ub = "abort" THEN Abort ELSE Ok(JNull)

\* basic_json::contains
contains(j, key) == j.t = "object" /\ key \in DOMAIN j.o

\* const operator[](key): type_error on a non-object, undefined on a missing key
at_key(j, key, ub) ==
    IF j.t # "object" THEN Throw
    ELSE IF key \in DOMAIN j.o THEN Ok(j.o[key])
    ELSE Undefined(ub)

\* const operator[](size_type): type_error on a non-array, undefined out of range
at_index(j, idx, ub) ==
    IF j.t # "array" THEN Throw
    ELSE IF idx < Len(j.a) THEN Ok(j.a[idx + 1])
    ELSE Undefined(ub)

\* conversion to double / to std::string, of the outcome of a lookup
get_number(r) ==
    IF r.st # "ok" THEN r ELSE IF r.v.t = "number" THEN Ok(r.v.n) ELSE Throw
get_string(r) ==
    IF r.st # "ok" THEN r ELSE IF r.v.t = "string" THEN Ok(r.v.s) ELSE Throw

\* the elements a range-for visits: an array's elements, nothing for null, the
\* value itself for a primitive
RECURSIVE ObjectValues(_, _)
ObjectValues(o, keys) ==
    IF keys = {} THEN <<>>
    ELSE LET k == CHOOSE x \in keys : TRUE
         IN  <<o[k]>> \o ObjectValues(o, keys \ {k})
Items(j) ==
    IF j.t = "array" THEN j.a
    ELSE IF j.t = "null" THEN <<>>
    ELSE IF j.t = "object" THEN ObjectValues(j.o, DOMAIN j.o)
    ELSE <<j>>

\* the channel names of the frames, split at "."
Split(s) ==
    CASE s = "book.BTC-PERPETUAL.100ms" -> <<"book", "BTC-PERPETUAL", "100ms">>
      [] s = "book.ETH-PERPETUAL.raw" -> <<"book", "ETH-PERPETUAL", "raw">>
      [] s = "trades.BTC-PERPETUAL.100ms" -> <<"trades", "BTC-PERPETUAL", "100ms">>
      [] s = "user.orders.BTC-PERPETUAL.raw" -> <<"user", "orders", "BTC-PERPETUAL", "raw">>
      [] s = "user.portfolio.btc" -> <<"user", "portfolio", "btc">>
      [] s = "user.trades.BTC-PERPETUAL.raw" -> <<"user", "trades", "BTC-PERPETUAL", "raw">>
      [] s = "ticker.BTC-PERPETUAL.raw" -> <<"ticker", "BTC-PERPETUAL", "raw">>
      [] s = "book" -> <<"book">>
      [] s = "book." -> <<"book", "">>
      [] s = "trades." -> <<"trades", "">>
      [] s = "user." -> <<"user", "">>
\* std::string::starts_with, for a prefix that ends at its first "."
starts_with(s, prefix) ==
    Len(Split(s)) >= 2 /\ Split(s)[1] = Split(prefix)[1]
\* channel.substr(n, channel.find(".", n) - n), n the length of the prefix
channel_instrument(channel) == Split(channel)[2]

RECURSIVE ParseLevels(_, _)
\* processOrderBookUpdate, lines 227-233 and 236-242
ParseLevels(items, ub) ==
    IF items = <<>> THEN Ok(<<>>)
    ELSE LET price == get_number(at_index(Head(items), 0, ub))
             size == get_number(at_index(Head(items), 1, ub))
             rest == ParseLevels(Tail(items), ub)
         IN  IF price.st # "ok" THEN price
             ELSE IF size.st # "ok" THEN size
             ELSE IF rest.st # "ok" THEN rest
             ELSE Ok(<<Level(price.v, size.v)>> \o rest.v)

\* the lookup of a member and the levels parsed from it
ParseSide(data, key, ub) ==
    LET side == at_key(data, key, ub)
    IN  IF side.st # "ok" THEN side ELSE ParseLevels(Items(side.v), ub)

\* the process* functions give the calls they make, or throw, or abort
processOrderBookUpdate(instrument, data, ub) ==
    LET bids == ParseSide(data, "bids", ub)
        asks == ParseSide(data, "asks", ub)
    IN  IF bids.st # "ok" THEN bids
        ELSE IF asks.st # "ok" THEN asks
        ELSE Ok(<<[op |-> "updateOrderBook", instrument |-> instrument,
                   orderbook |-> OrderBook(instrument, bids.v, asks.v)]>>)

processTradeUpdate(instrument, data, ub) ==
    LET price == get_number(at_key(data, "price", ub))
        size == get_number(at_key(data, "amount", ub))
        side == get_string(at_key(data, "direction", ub))
    IN  IF price.st # "ok" THEN price
        ELSE IF size.st # "ok" THEN size
        ELSE IF side.st # "ok" THEN side
        ELSE Ok(<<[op |-> "addTrade", instrument |-> instrument,
                   trade |-> [price |-> price.v, size |-> size.v, side |-> side.v]]>>)

\* the members read from data["order"] and data["position"], in program order
OrderFields ==
    <<"order_id", "instrument_name", "direction", "amount", "price", "order_type",
      "order_state">>
PositionFields ==
    <<"instrument_name", "size", "average_price", "mark_price",
      "estimated_liquidation_price", "floating_profit_loss", "realized_profit_loss">>
NumberFields ==
    {"amount", "price", "size", "average_price", "mark_price",
     "estimated_liquidation_price", "floating_profit_loss", "realized_profit_loss"}

RECURSIVE ReadFields(_, _, _, _)
\* data[member][field] converted to the type of the struct member, field by field
ReadFields(data, member, fields, ub) ==
    IF fields = <<>> THEN Ok(<<>>)
    ELSE LET object == at_key(data, member, ub)
             value == IF object.st # "ok" THEN object
                      ELSE at_key(object.v, Head(fields), ub)
             converted == IF Head(fields) \in NumberFields
                          THEN get_number(value) ELSE get_string(value)
         IN  IF converted.st # "ok" THEN converted
             ELSE ReadFields(data, member, Tail(fields), ub)

processUserDataUpdate(data, ub) ==
    IF contains(data, "order")
    THEN LET order == ReadFields(data, "order", OrderFields, ub)
         IN  IF order.st # "ok" THEN order
             ELSE IF order_callback_
                  THEN Ok(<<[op |-> "order_callback", instrument |-> "",
                             order_id |-> data.o.order.o.order_id.s,
                             status |-> data.o.order.o.order_state.s]>>)
                  ELSE Ok(<<>>)
    ELSE IF contains(data, "position")
    THEN LET position == ReadFields(data, "position", PositionFields, ub)
         IN  IF position.st # "ok" THEN position
             ELSE IF position_callback_
                  THEN Ok(<<[op |-> "position_callback", instrument |-> "",
                             position |->
                                [instrument |-> data.o.position.o.instrument_name.s,
                                 size |-> data.o.position.o.size.n,
                                 entry_price |-> data.o.position.o.average_price.n]]>>)
                  ELSE Ok(<<>>)
    ELSE Ok(<<>>)

\* handleWebSocketMessage up to its catch: the calls it makes
handleWebSocketMessage(message, ub) ==
    IF message.t = "invalid" THEN Throw
    ELSE IF /\ contains(message, "method")
            /\ message.o.method.t = "string"
            /\ message.o.method.s = "subscription"
    THEN LET params == IF contains(message, "params") THEN message.o.params ELSE JNull
             channel == get_string(at_key(params, "channel", ub))
             data == at_key(params, "data", ub)
         IN  IF channel.st # "ok" THEN channel
             ELSE IF starts_with(channel.v, "book.")
                  THEN IF data.st # "ok" THEN data
                       ELSE processOrderBookUpdate(channel_instrument(channel.v),
                                                   data.v, ub)
             ELSE IF starts_with(channel.v, "trades.")
                  THEN IF data.st # "ok" THEN data
                       ELSE processTradeUpdate(channel_instrument(channel.v), data.v, ub)
             ELSE IF starts_with(channel.v, "user.")
                  THEN IF data.st # "ok" THEN data
                       ELSE processUserDataUpdate(data.v, ub)
             ELSE Ok(<<>>)
    ELSE Ok(<<>>)

FrameObs(message, r) ==
    [message |-> message, st |-> r.st, ops |-> IF r.st = "ok" THEN r.v ELSE <<>>,
     error |-> r.st = "throw" /\ error_callback_]

\* a frame that takes the response branch of the handler, lines 208-212
IsResponse(message) ==
    /\ message.t = "object"
    /\ ~(/\ contains(message, "method")
          /\ message.o.method.t = "string"
          /\ message.o.method.s = "subscription")
    /\ contains(message, "id")

HandleWebSocketMessage(message, ub) ==
    LET r == handleWebSocketMessage(message, ub)
        ops == IF r.st = "ok" THEN r.v ELSE <<>>
    IN  /\ lastFrame' = FrameObs(message, r)
        /\ crashed' = (r.st = "abort")
        /\ IF ops # <<>> /\ ops[1].op = "updateOrderBook"
           THEN UpdateOrderBook(ops[1].orderbook)
           ELSE IF ops # <<>> /\ ops[1].op = "addTrade"
           THEN AddTrade(ops[1].instrument, ops[1].trade.price, ops[1].trade.size,
                         ops[1].trade.side)
           ELSE UNCHANGED storeVars
        /\ errors' = IF r.st = "throw" /\ error_callback_
                     THEN errors \cup {"Error processing WebSocket message"}
                     ELSE errors
        /\ responses' = IF r.st = "ok" /\ IsResponse(message) /\ message.o.id.t = "number"
                        THEN responses \cup {<<connection, message.o.id.n>>}
                        ELSE responses
        /\ order_status' = IF ops # <<>> /\ ops[1].op = "order_callback"
                           THEN MapPut(order_status, ops[1].order_id, ops[1].status)
                           ELSE order_status
        /\ UNCHANGED <<is_connected_, error_callback_, order_callback_,
                       position_callback_, sent, close_pc, connection, calls, subscribed,
                       requested>>

\* the frame of a request, as handed to websocket_->send
Request(id, method, order_id, instrument_name, amount, price) ==
    [id |-> id, method |-> method, order_id |-> order_id,
     instrument_name |-> instrument_name, amount |-> amount, price |-> price]

\* initialize: the socket connects, and authenticate sends its frame; the
\* message handler and the close handler are set on this socket
ClientInitialize ==
    /\ ~is_connected_
    /\ connection = 0
    /\ Len(sent) < MaxSent
    /\ is_connected_' = TRUE
    /\ connection' = connection + 1
    /\ sent' = Append(sent, Request(9929, "public/auth", "", "", 0, 0))
    /\ UNCHANGED <<error_callback_, order_callback_, position_callback_, crashed,
                   lastFrame, close_pc, errors, calls, responses, subscribed, requested,
                   order_status>>

\* the application registers its three callbacks
RegisterCallbacks ==
    /\ ~error_callback_
    /\ error_callback_' = TRUE
    /\ order_callback_' = TRUE
    /\ position_callback_' = TRUE
    /\ UNCHANGED <<is_connected_, sent, crashed, lastFrame, channelVars>>

\* websocket_->send(...).wait(): a socket that is not open takes no frame
Send(frame) ==
    /\ is_connected_
    /\ Len(sent) < MaxSent
    /\ sent' = Append(sent, frame)
    /\ UNCHANGED <<is_connected_, error_callback_, order_callback_, position_callback_,
                   crashed, lastFrame, close_pc, connection, errors, responses,
                   order_status>>

\* an order action and the value its caller gets when the call returns
Call(op, id, returned) ==
    [op |-> op, id |-> id, connection |-> connection, returned |-> returned]

placeOrder_method(side) ==
    IF side = "sell" THEN "private/buyprivate/sell" ELSE "private/buy"

PlaceOrder(request) ==
    /\ Send(Request(9931, placeOrder_method(request.side), "", request.instrument,
                    request.size, request.price))
    /\ calls' = Append(calls, Call("placeOrder", 9931, "pending_order_id"))
    /\ UNCHANGED <<subscribed, requested>>

CancelOrder(order_id) ==
    /\ Send(Request(9932, "private/cancel", order_id, "", 0, 0))
    /\ calls' = Append(calls, Call("cancelOrder", 9932, "true"))
    /\ UNCHANGED <<subscribed, requested>>

ModifyOrder(order_id, new_size, new_price) ==
    /\ Send(Request(9933, "private/edit", order_id, "", new_size, new_price))
    /\ calls' = Append(calls, Call("modifyOrder", 9933, "true"))
    /\ UNCHANGED <<subscribed, requested>>

\* the subscribe requests; each names its channels in params.channels
Subscribe(id, method, instrument, channels) ==
    /\ Send(Request(id, method, "", instrument, 0, 0))
    /\ subscribed' = subscribed \cup channels
    /\ requested' = requested \cup channels
    /\ UNCHANGED calls

SubscribeToOrderBook(instrument) ==
    Subscribe(9934, "public/subscribe", instrument, {<<"book", instrument, "100ms">>})

SubscribeToTrades(instrument) ==
    Subscribe(9935, "public/subscribe", instrument, {<<"trades", instrument, "100ms">>})

SubscribeToUserData ==
    Subscribe(9936, "private/subscribe", "",
              {<<"user", "orders", "*">>, <<"user", "trades", "*">>,
               <<"user", "portfolio", "*">>})

\* the socket that initialize made carries the handlers; the socket that
\* reconnectWebSocket makes gets none
HandlersSet == connection = 1

\* the close handler, lines 47-52, up to its call of reconnectWebSocket
CloseHandler ==
    /\ is_connected_
    /\ HandlersSet
    /\ close_pc = "idle"
    /\ is_connected_' = FALSE
    /\ errors' = IF error_callback_ THEN errors \cup {"WebSocket connection closed"}
                 ELSE errors
    /\ close_pc' = "reconnectWebSocket"
    /\ UNCHANGED <<error_callback_, order_callback_, position_callback_, sent, crashed,
                   lastFrame, connection, calls, responses, subscribed, requested,
                   order_status>>

\* what connect(...).wait() does, and what becomes of the exception that a
\* failed connect throws out of the close handler into the library's thread
ConnectOutcomes == {"connected", "failed"}
EscapeOutcomes == {"terminate", "swallowed"}

\* reconnectWebSocket, called by the close handler: one attempt
ReconnectWebSocket(outcome, escape) ==
    /\ close_pc = "reconnectWebSocket"
    /\ IF outcome = "connected"
       THEN /\ Len(sent) < MaxSent
            /\ is_connected_' = TRUE
            /\ connection' = connection + 1
            /\ sent' = Append(sent, Request(9929, "public/auth", "", "", 0, 0))
            /\ subscribed' = {}
            /\ close_pc' = "idle"
            /\ crashed' = crashed
       ELSE /\ close_pc' = "failed"
            /\ crashed' = (escape = "terminate")
            /\ subscribed' = {}
            /\ UNCHANGED <<is_connected_, connection, sent>>
    /\ UNCHANGED <<error_callback_, order_callback_, position_callback_, lastFrame,
                   errors, calls, responses, requested, order_status>>

\* shutdown(): closes the socket when is_connected_; the close runs the close
\* handler of the socket, when it has one
Shutdown ==
    /\ connection > 0
    /\ close_pc = "idle"
    /\ shutdown_at' = connection
    /\ IF is_connected_ /\ HandlersSet THEN CloseHandler ELSE UNCHANGED clientVars

ClientInit ==
    /\ is_connected_ = FALSE
    /\ error_callback_ = FALSE
    /\ order_callback_ = FALSE
    /\ position_callback_ = FALSE
    /\ sent = <<>>
    /\ crashed = FALSE
    /\ lastFrame = [message |-> JNull, st |-> "ok", ops |-> <<>>, error |-> FALSE]
    /\ close_pc = "idle"
    /\ connection = 0
    /\ errors = {}
    /\ calls = <<>>
    /\ responses = {}
    /\ subscribed = {}
    /\ requested = {}
    /\ order_status = <<>>

(***************************************************************************)
(* LatencyModule                                                           *)
(***************************************************************************)
\* size_t max_history_size_ = 1000;
DefaultHistorySize == 1000

MaxSmallWindow == 3     \* samples recorded into a window that starts empty
HistorySizes == {1, 2, DefaultHistorySize}   \* arguments of setHistorySize
MaxOverflow == 2        \* samples recorded beyond max_history_size_

\* the operation classes with a getter of their own, and the latencies
\* recorded, in microseconds; a latency is not negative
OperationIds == {"order_placement", "market_data"}
Samples == {10, 20, 40}

Range(seq) == {seq[k] : k \in 1..Len(seq)}
Occurrences(seq, v) == Cardinality({k \in 1..Len(seq) : seq[k] = v})
\* latency_data_[operation_id] as a value: empty when the key is absent
Window(operation_id) ==
    IF operation_id \in DOMAIN latency_data_ THEN latency_data_[operation_id] ELSE <<>>

\* end / track*: push_back, then erase(begin()) beyond max_history_size_
Record(latencies, latency) ==
    IF Len(latencies) + 1 > max_history_size_
    THEN Tail(Append(latencies, latency))
    ELSE Append(latencies, latency)

RECURSIVE Total(_, _)
Total(latencies, values) ==
    IF values = {} THEN 0
    ELSE LET v == CHOOSE x \in values : TRUE
         IN  (v * Occurrences(latencies, v)) + Total(latencies, values \ {v})
\* std::accumulate(latencies.begin(), latencies.end(), Duration::zero())
accumulate(latencies) == Total(latencies, Range(latencies))

SortedAt_unsorted(latencies, idx) == latencies[idx + 1]

\* sorted_latencies[idx] of the std::sort-ed copy, idx counted from 0: the
\* value with at most idx samples below it and more than idx at or below it
SortedAt(latencies, idx) ==
    CHOOSE v \in Range(latencies) :
        /\ Cardinality({k \in 1..Len(latencies) : latencies[k] < v}) <= idx
        /\ Cardinality({k \in 1..Len(latencies) : latencies[k] <= v}) > idx

\* (sorted_latencies.size() - 1) * p / 100, in size_t
PercentileIndex(size, p) == ((size - 1) * p) \div 100

\* calculateStats on a window that is not empty
calculateStats(latencies) ==
    [count |-> Len(latencies),
     min |-> CHOOSE v \in Range(latencies) : \A w \in Range(latencies) : v <= w,
     max |-> CHOOSE v \in Range(latencies) : \A w \in Range(latencies) : v >= w,
     avg |-> accumulate(latencies) \div Len(latencies),
     p50 |-> SortedAt(latencies, PercentileIndex(Len(latencies), 50)),
     p90 |-> SortedAt(latencies, PercentileIndex(Len(latencies), 90)),
     p99 |-> SortedAt(latencies, PercentileIndex(Len(latencies), 99))]

\* `LatencyStats stats;` has no initialiser: when calculateStats returns at
\* once for an empty window, or the key is absent, the caller gets the
\* indeterminate values of the local; a build can give zeroes or anything else
IndeterminateStats ==
    {[count |-> 0, min |-> 0, max |-> 0, avg |-> 0, p50 |-> 0, p90 |-> 0, p99 |-> 0],
     [count |-> 7, min |-> 40, max |-> 10, avg |-> 0, p50 |-> 20, p90 |-> 10, p99 |-> 0]}

NoStats == [operation_id |-> "", stats |-> CHOOSE x \in {[count |-> 0, min |-> 0,
                max |-> 0, avg |-> 0, p50 |-> 0, p90 |-> 0, p99 |-> 0]} : TRUE,
            calls |-> 0]

\* the samples one more record call may add within the bounds of the model
FitsWindow(operation_id) ==
    \/ Len(Window(operation_id)) < MaxSmallWindow
    \/ /\ Len(Window(operation_id)) >= max_history_size_ - 1
       /\ recorded[operation_id] < max_history_size_ + MaxOverflow

\* end(operation_id, start_time): latency is end_time - start_time
End(operation_id, latency) ==
    /\ FitsWindow(operation_id)
    /\ latency_data_' = MapPut(latency_data_, operation_id,
                               Record(Window(operation_id), latency))
    /\ recorded' = [recorded EXCEPT ![operation_id] = @ + 1]
    /\ UNCHANGED lastStats

\* trackOrderPlacement / trackMarketData
Track(operation_id, latency) ==
    /\ FitsWindow(operation_id)
    /\ latency_data_' = MapPut(latency_data_, operation_id,
                               Record(Window(operation_id), latency))
    /\ recorded' = [recorded EXCEPT ![operation_id] = @ + 1]
    /\ UNCHANGED lastStats

\* getOrderPlacementStats / getMarketDataStats
GetStats(operation_id, indeterminate) ==
    /\ lastStats' =
          [operation_id |-> operation_id,
           stats |-> IF Window(operation_id) = <<>> THEN indeterminate
                     ELSE calculateStats(Window(operation_id)),
           calls |-> 1 - lastStats.calls]
    /\ UNCHANGED <<latency_data_, recorded>>

\* resetStats: latency_data_.clear()
ResetStats ==
    /\ latency_data_' = <<>>
    /\ recorded' = [operation_id \in OperationIds |-> 0]
    /\ UNCHANGED lastStats

\* data.resize(size) of a longer window: the first `size` elements stay
Resize(latencies, size) ==
    IF Len(latencies) > size THEN SubSeq(latencies, 1, size) ELSE latencies

\* setHistorySize(size)
SetHistorySize(size) ==
    /\ max_history_size_' = size
    /\ latency_data_' = [operation_id \in DOMAIN latency_data_ |->
                            Resize(latency_data_[operation_id], size)]
    /\ UNCHANGED <<recorded, lastStats, lastHist>>

NoHist == [operation_id |-> "", st |-> "none", result |-> <<>>, calls |-> 0]
HistObs(operation_id, st, result) ==
    [operation_id |-> operation_id, st |-> st, result |-> result,
     calls |-> 1 - lastHist.calls]

\* getHistoricalStats(operation_id): under lock_guard on mutex_, throws
\* "Operation ID not found" for an absent key (the guard unlocks), otherwise
\* calls getStats(operation_id), which takes lock_guard on mutex_ again
GetHistoricalStats(operation_id, relock) ==
    /\ lastHist' =
          IF operation_id \notin DOMAIN latency_data_
          THEN HistObs(operation_id, "not_found", <<>>)
          ELSE CASE relock = "deadlock" -> HistObs(operation_id, "blocked", <<>>)
                 [] relock = "throws" -> HistObs(operation_id, "threw", <<>>)
                 [] relock = "proceeds" ->
                       HistObs(operation_id, "returned",
                               <<calculateStats(latency_data_[operation_id])>>)
    /\ UNCHANGED <<latency_data_, recorded, lastStats, max_history_size_>>

HistoryInit ==
    /\ max_history_size_ = DefaultHistorySize
    /\ lastHist = NoHist

LatencyInit ==
    /\ latency_data_ = <<>>
    /\ recorded = [operation_id \in OperationIds |-> 0]
    /\ lastStats = NoStats

\* a module that has recorded max_history_size_ - 1 order placements: the
\* 500th took 40, the 900th 10, all others 20
NearFullWindow ==
    [k \in 1..(max_history_size_ - 1) |->
        IF k = 500 THEN 40 ELSE IF k = 900 THEN 10 ELSE 20]
NearFullLatencyInit ==
    /\ latency_data_ = [operation_id \in {"order_placement"} |-> NearFullWindow]
    /\ recorded = [operation_id \in OperationIds |->
                      IF operation_id = "order_placement" THEN max_history_size_ - 1
                      ELSE 0]
    /\ lastStats = NoStats

(***************************************************************************)
(* Benchmark                                                               *)
(***************************************************************************)
MaxOperations == 2      \* operations started under one name
OperationNames == {"test_operation", "order"}
Durations == {10, 20}   \* microseconds between startOperation and endOperation

\* operations_[operation_name] as startOperation creates it
NewOperation == [latencies |-> <<>>, success_count |-> 0, failure_count |-> 0]
NoCount == [clean |-> 0, failed |-> 0]

NoBench == [op |-> "none", operation_name |-> "", st |-> "none", n |-> 0]
BenchObs(op, operation_name, st) ==
    [op |-> op, operation_name |-> operation_name, st |-> st, n |-> 1 - lastBench.n]

\* std::sort(latencies.begin(), latencies.end())
SortLatencies(latencies) ==
    [k \in 1..Len(latencies) |-> SortedAt(latencies, k - 1)]

\* calculateLatencyMetrics, called by a function that holds metrics_mutex_:
\* what it leaves of operations_ and how it ends. With no latencies (or an
\* unknown name) it returns at line 121. Otherwise it sorts the latencies in
\* place and then locks metrics_mutex_ itself (line 143): the mutex is not
\* recursive and the thread holds it, so the outcome is not defined.
calculateLatencyMetrics(operations, operation_name, relock) ==
    IF operation_name \notin DOMAIN operations
       \/ operations[operation_name].latencies = <<>>
    THEN [operations |-> operations, st |-> "returned"]
    ELSE [operations |->
              [operations EXCEPT ![operation_name].latencies = SortLatencies(@)],
          st |-> IF relock = "deadlock" THEN "blocked"
                 ELSE IF relock = "throws" THEN "threw" ELSE "returned"]

\* startOperation: creates the entry when there is none, sets its start_time
StartOperation(operation_name) ==
    /\ metrics_mutex_ = "free"
    /\ operations_' = IF operation_name \in DOMAIN operations_ THEN operations_
                      ELSE MapPut(operations_, operation_name, NewOperation)
    /\ op_open' = [op_open EXCEPT ![operation_name] = "started"]
    /\ UNCHANGED <<op_ended, real_time_monitoring_, metrics_mutex_, lastBench>>

\* operations_ after lines 35-39 of endOperation: the duration recorded and
\* a success counted when the name is known
Ended(operation_name, duration) ==
    IF operation_name \in DOMAIN operations_
    THEN [operations_ EXCEPT
             ![operation_name].latencies = Append(@, duration),
             ![operation_name].success_count = @ + 1]
    ELSE operations_
\* whether endOperation goes on to calculateLatencyMetrics
Monitors(operation_name) ==
    operation_name \in DOMAIN operations_ /\ real_time_monitoring_

\* endOperation
EndOperation(operation_name, duration, relock) ==
    /\ metrics_mutex_ = "free"
    /\ operations_' =
          IF Monitors(operation_name)
          THEN calculateLatencyMetrics(Ended(operation_name, duration), operation_name,
                                       relock).operations
          ELSE Ended(operation_name, duration)
    /\ lastBench' =
          BenchObs("endOperation", operation_name,
                   IF Monitors(operation_name)
                   THEN calculateLatencyMetrics(Ended(operation_name, duration),
                                                operation_name, relock).st
                   ELSE "returned")
    /\ metrics_mutex_' = IF lastBench'.st = "blocked" THEN "endOperation" ELSE "free"
    /\ op_open' = [op_open EXCEPT ![operation_name] = "none"]
    /\ op_ended' =
          IF op_open[operation_name] = "started"
          THEN [op_ended EXCEPT ![operation_name].clean = @ + 1]
          ELSE IF op_open[operation_name] = "errored"
          THEN [op_ended EXCEPT ![operation_name].failed = @ + 1]
          ELSE op_ended
    /\ UNCHANGED real_time_monitoring_

\* recordError: counts a failure when the name is known
RecordError(operation_name) ==
    /\ metrics_mutex_ = "free"
    /\ operations_' =
          IF operation_name \in DOMAIN operations_
          THEN [operations_ EXCEPT ![operation_name].failure_count = @ + 1]
          ELSE operations_
    /\ op_open' = [op_open EXCEPT
                      ![operation_name] = IF @ = "none" THEN "none" ELSE "errored"]
    /\ UNCHANGED <<op_ended, real_time_monitoring_, metrics_mutex_, lastBench>>

\* getLatencyMetrics: locks metrics_mutex_ and, for a known name, calls
\* calculateLatencyMetrics
GetLatencyMetrics(operation_name, relock) ==
    /\ metrics_mutex_ = "free"
    /\ operations_' =
          calculateLatencyMetrics(operations_, operation_name, relock).operations
    /\ lastBench' =
          BenchObs("getLatencyMetrics", operation_name,
                   calculateLatencyMetrics(operations_, operation_name, relock).st)
    /\ metrics_mutex_' = IF lastBench'.st = "blocked" THEN "getLatencyMetrics" ELSE "free"
    /\ UNCHANGED <<op_open, op_ended, real_time_monitoring_>>

\* enableRealTimeMonitoring: an unlocked store
EnableRealTimeMonitoring(enable) ==
    /\ real_time_monitoring_' = enable
    /\ UNCHANGED <<operations_, op_open, op_ended, metrics_mutex_, lastBench>>

BenchInit ==
    /\ operations_ = <<>>
    /\ op_open = [operation_name \in OperationNames |-> "none"]
    /\ op_ended = [operation_name \in OperationNames |-> NoCount]
    /\ real_time_monitoring_ = FALSE
    /\ metrics_mutex_ = "free"
    /\ lastBench = NoBench

(***************************************************************************)
(* ErrorHandler                                                            *)
(***************************************************************************)
MaxActions == 2         \* recovery actions registered
MaxErrors == 3          \* errors logged
Severities == {"INFO", "WARNING", "ERROR", "CRITICAL"}
\* the recovery actions a caller registers: name, priority, max_attempts
RecoveryActions ==
    {[name |-> "network_recovery", priority |-> 1, max_attempts |-> 2],
     [name |-> "restart", priority |-> 2, max_attempts |-> 1]}
ActionNames == {a.name : a \in RecoveryActions}
\* what the callables do when run: per name, the attempt at which action()
\* first returns true (0: never), and whether a failing attempt throws
Scripts == [ActionNames -> [succeeds : 0..2, throws : BOOLEAN]]

\* std::sort with a.priority > b.priority: the position of an action among
\* the registered ones
RECURSIVE SortByPriority(_)
SortByPriority(actions) ==
    IF actions = <<>> THEN <<>>
    ELSE LET k == CHOOSE i \in 1..Len(actions) :
                     \A j \in 1..Len(actions) :
                         \/ actions[i].priority > actions[j].priority
                         \/ actions[i].priority = actions[j].priority /\ i <= j
         IN  <<actions[k]>> \o
             SortByPriority([j \in 1..(Len(actions) - 1) |->
                                IF j < k THEN actions[j] ELSE actions[j + 1]])

\* addRecoveryAction: push_back, then sort by descending priority
AddRecoveryAction(action) ==
    /\ recovery_actions_' = SortByPriority(Append(recovery_actions_, action))
    /\ UNCHANGED <<recovery_enabled_, error_count_, lastLog>>

EnableRecovery(enable) ==
    /\ recovery_enabled_' = enable
    /\ UNCHANGED <<recovery_actions_, error_count_, lastLog>>

\* one call of action(): the position of the action in recovery_actions_,
\* the action and what the call did
Attempt(k, action, outcome) ==
    [index |-> k, name |-> action.name, priority |-> action.priority,
     max_attempts |-> action.max_attempts, outcome |-> outcome]
\* action.action() in its attempt-th run of this recovery
Outcome(action, attempt, script) ==
    IF script[action.name].succeeds = attempt THEN "true"
    ELSE IF script[action.name].throws THEN "throws" ELSE "false"

\* the loops of attemptRecovery from action k, attempt `attempts` on: the
\* calls of action() made, in order, until one returns true
RECURSIVE attemptRecovery(_, _, _, _)
attemptRecovery(actions, k, attempts, script) ==
    IF k > Len(actions) THEN <<>>
    ELSE IF ~(attempts < actions[k].max_attempts)
    THEN attemptRecovery(actions, k + 1, 0, script)
    ELSE IF Outcome(actions[k], attempts + 1, script) = "true"
    THEN <<Attempt(k, actions[k], "true")>>
    ELSE <<Attempt(k, actions[k], Outcome(actions[k], attempts + 1, script))>>
         \o attemptRecovery(actions, k, attempts + 1, script)

\* the log calls attemptRecovery makes itself: LOG_INFO on success, LOG_ERROR
\* on a caught exception
Logged(ran) == Cardinality({k \in 1..Len(ran) : ran[k].outcome # "false"})

NoLog == [severity |-> "", recovery |-> FALSE, st |-> "none", ran |-> <<>>]

\* logError. It holds mutex_ when it calls attemptRecovery, which locks
\* mutex_ again: the std::mutex is not recursive, so what follows is not
\* defined; the builds either block there for ever, throw from lock(), or go
\* on as if the lock had been taken.
LogError(severity, script, relock) ==
    /\ lastLog' =
          IF ~(severity = "CRITICAL" /\ recovery_enabled_)
          THEN [severity |-> severity, recovery |-> recovery_enabled_,
                st |-> "returned", ran |-> <<>>]
          ELSE IF relock = "deadlock"
          THEN [severity |-> severity, recovery |-> TRUE, st |-> "deadlock", ran |-> <<>>]
          ELSE IF relock = "throws"
          THEN [severity |-> severity, recovery |-> TRUE, st |-> "threw", ran |-> <<>>]
          ELSE [severity |-> severity, recovery |-> TRUE, st |-> "returned",
                ran |-> attemptRecovery(recovery_actions_, 1, 0, script)]
    /\ error_count_' =
          IF severity = "CRITICAL" /\ recovery_enabled_ /\ relock = "proceeds"
          THEN error_count_ + 1 + Logged(attemptRecovery(recovery_actions_, 1, 0, script))
          ELSE error_count_ + 1
    /\ UNCHANGED <<recovery_actions_, recovery_enabled_>>

(***************************************************************************)
(* WebSocketServer                                                         *)
(***************************************************************************)
MaxQueued == 1          \* messages waiting in message_queue_
\* the worker threads start() spawns (hardware_concurrency of them)
Workers == {"w1", "w2"}
Symbols == {"BTC"}
Clients == {"c1"}
Messages == {"m"}

NoCall == [op |-> "none", was_running |-> FALSE, n |-> 0]
CallObs(op) == [op |-> op, was_running |-> server_running_, n |-> 1 - lastCall.n]

\* a start() that does not test running_
Start_unguarded ==
    /\ server_running_' = TRUE
    /\ worker_pc' = [w \in Workers |-> "loop"]
    /\ lastCall' = CallObs("start")
    /\ UNCHANGED <<queue_mutex_, message_queue_, subscriptions_, stop_pc>>

\* start(): returns at once when running_; otherwise sets running_ and
\* spawns the workers (the caller then serves the I/O context)
Start ==
    /\ IF server_running_
       THEN UNCHANGED <<server_running_, worker_pc>>
       ELSE /\ server_running_' = TRUE
            /\ worker_pc' = [w \in Workers |-> "loop"]
    /\ lastCall' = CallObs("start")
    /\ UNCHANGED <<queue_mutex_, message_queue_, subscriptions_, stop_pc>>

\* stop(), lines 108-111: returns at once when not running_; otherwise
\* clears running_, without holding queue_mutex_
StopBegin ==
    /\ stop_pc = "idle"
    /\ IF ~server_running_
       THEN UNCHANGED <<server_running_, stop_pc>>
       ELSE server_running_' = FALSE /\ stop_pc' = "notify"
    /\ lastCall' = CallObs("stop")
    /\ UNCHANGED <<worker_pc, queue_mutex_, message_queue_, subscriptions_>>
\* queue_condition_.notify_all(): wakes the workers blocked in wait
StopNotify ==
    /\ stop_pc = "notify"
    /\ worker_pc' = [w \in Workers |->
                        IF worker_pc[w] = "waiting" THEN "woken" ELSE worker_pc[w]]
    /\ stop_pc' = "join"
    /\ UNCHANGED <<server_running_, queue_mutex_, message_queue_, subscriptions_, lastCall>>
\* thread.join() for every worker: returns when each has left its loop
StopJoin ==
    /\ stop_pc = "join"
    /\ \A w \in Workers : worker_pc[w] = "exited"
    /\ worker_pc' = [w \in Workers |-> "joined"]
    /\ stop_pc' = "clear"
    /\ UNCHANGED <<server_running_, queue_mutex_, message_queue_, subscriptions_, lastCall>>
\* subscriptions_.clear(), and stop() returns
StopClear ==
    /\ stop_pc = "clear"
    /\ subscriptions_' = [symbol \in Symbols |-> {}]
    /\ stop_pc' = "idle"
    /\ UNCHANGED <<server_running_, worker_pc, queue_mutex_, message_queue_, lastCall>>

\* while (running_) process_messages();
WorkerLoop(w) ==
    /\ worker_pc[w] = "loop"
    /\ worker_pc' = [worker_pc EXCEPT ![w] = IF server_running_ THEN "lock" ELSE "exited"]
    /\ UNCHANGED <<server_running_, queue_mutex_, message_queue_, subscriptions_, stop_pc,
                   lastCall>>
\* std::unique_lock lock(queue_mutex_), or the lock taken again on waking
WorkerLock(w) ==
    /\ worker_pc[w] \in {"lock", "woken"}
    /\ queue_mutex_ = "free"
    /\ queue_mutex_' = w
    /\ worker_pc' = [worker_pc EXCEPT ![w] = "pred"]
    /\ UNCHANGED <<server_running_, message_queue_, subscriptions_, stop_pc, lastCall>>
\* wait(lock, pred) evaluates !message_queue_.empty() || !running_
WorkerPred(w) ==
    /\ worker_pc[w] = "pred"
    /\ worker_pc' = [worker_pc EXCEPT
                        ![w] = IF message_queue_ # <<>> \/ ~server_running_
                               THEN "proceed" ELSE "towait"]
    /\ UNCHANGED <<server_running_, queue_mutex_, message_queue_, subscriptions_, stop_pc,
                   lastCall>>
\* the predicate was false: release the mutex and block on the condition
WorkerWait(w) ==
    /\ worker_pc[w] = "towait"
    /\ queue_mutex_' = "free"
    /\ worker_pc' = [worker_pc EXCEPT ![w] = "waiting"]
    /\ UNCHANGED <<server_running_, message_queue_, subscriptions_, stop_pc, lastCall>>
\* a condition variable may wake without a notification
WorkerSpurious(w) ==
    /\ worker_pc[w] = "waiting"
    /\ worker_pc' = [worker_pc EXCEPT ![w] = "woken"]
    /\ UNCHANGED <<server_running_, queue_mutex_, message_queue_, subscriptions_, stop_pc,
                   lastCall>>
\* process_messages, lines 221-240: return when not running_, else pop the
\* front message, unlock and write it to the subscribed clients
WorkerProceed(w) ==
    /\ worker_pc[w] = "proceed"
    /\ message_queue_' = IF server_running_ THEN Tail(message_queue_) ELSE message_queue_
    /\ queue_mutex_' = "free"
    /\ worker_pc' = [worker_pc EXCEPT ![w] = "loop"]
    /\ UNCHANGED <<server_running_, subscriptions_, stop_pc, lastCall>>

\* broadcast: push under queue_mutex_, then notify_one
Broadcast(message, woken) ==
    /\ queue_mutex_ = "free"
    /\ message_queue_' = Append(message_queue_, message)
    /\ worker_pc' = [w \in Workers |-> IF w \in woken THEN "woken" ELSE worker_pc[w]]
    /\ UNCHANGED <<server_running_, queue_mutex_, subscriptions_, stop_pc, lastCall>>
\* the workers notify_one may wake: one of those waiting, none when none waits
NotifyOne ==
    IF \E w \in Workers : worker_pc[w] = "waiting"
    THEN {{w} : w \in {v \in Workers : worker_pc[v] = "waiting"}}
    ELSE {{}}

ServerSubscribe(symbol, client) ==
    /\ subscriptions_' = [subscriptions_ EXCEPT ![symbol] = @ \cup {client}]
    /\ UNCHANGED <<server_running_, worker_pc, queue_mutex_, message_queue_, stop_pc,
                   lastCall>>

ServerInit ==
    /\ server_running_ = FALSE
    /\ worker_pc = [w \in Workers |-> "none"]
    /\ queue_mutex_ = "free"
    /\ message_queue_ = <<>>
    /\ subscriptions_ = [symbol \in Symbols |-> {}]
    /\ stop_pc = "idle"
    /\ lastCall = NoCall

HandlerInit ==
    /\ recovery_actions_ = <<>>
    /\ recovery_enabled_ = TRUE
    /\ error_count_ = 0
    /\ lastLog = NoLog
MoreInit == HandlerInit /\ ServerInit /\ shutdown_at = 0 /\ HistoryInit

ToolInit == LatencyInit /\ ConfigInit /\ BenchInit /\ MoreInit

RiskInit ==
    /\ trading_config_ = loadDefaultConfig
    /\ positions_ = <<>>
    /\ risk_metrics_ = [total_exposure |-> 0, daily_pnl |-> 0, total_trades |-> 0,
                        winning_trades |-> 0, win_rate |-> <<0, 1>>]
    /\ risk_callback_ = FALSE
    /\ lastRisk = NoObs
    /\ riskRepeat = FALSE
    /\ approved = {}

Init == RiskInit /\ StoreInit /\ StrategyInit /\ ClientInit /\ ToolInit

(***************************************************************************)
(* The risk engine, called by any caller                                   *)
(***************************************************************************)
RiskCall ==
    \E instrument \in Instruments, size \in OrderSizes, price \in OrderPrices, side \in Sides :
        CheckOrderRisk(instrument, size, price, side)
RiskPositionPush == \E position \in PositionValues : UpdatePosition(position)
RiskMetricsPush == \E metrics \in MetricsValues : UpdateRiskMetrics(metrics)
RiskCallbackSet == \E registered \in BOOLEAN : SetRiskCallback(registered)
ConfigSet == \E config \in TradingConfigs : SetTradingConfig(config)

RiskNext ==
    \/ RiskCall
    \/ RiskPositionPush
    \/ RiskMetricsPush
    \/ RiskCallbackSet
    \/ ConfigSet

SpecRisk == Init /\ [][RiskNext]_vars

(***************************************************************************)
(* The configuration, loaded and set by any caller                         *)
(***************************************************************************)
\* the configurations handed to the setters: valid ones and ones that
\* validateConfig refuses
AnyTradingConfigs ==
    TradingConfigs \cup {[loadDefaultConfig EXCEPT !.max_order_size = 0],
                         [loadDefaultConfig EXCEPT !.max_daily_loss = -1]}
NetworkConfigs ==
    {DefaultNetworkConfig, [DefaultNetworkConfig EXCEPT !.connection_timeout_ms = 0]}
PerformanceConfigs ==
    {DefaultPerformanceConfig, [DefaultPerformanceConfig EXCEPT !.batch_size = 0]}

\* a file as loadConfig sees it: one that cannot be opened, one that is not
\* JSON, or a document with some of the three sections
ConfigFile(state, sections, trading, network, performance) ==
    [state |-> state, sections |-> sections, trading |-> trading, network |-> network,
     performance |-> performance]
ConfigFiles ==
    {ConfigFile("missing", {}, <<>>, <<>>, <<>>),
     ConfigFile("garbled", {}, <<>>, <<>>, <<>>),
     ConfigFile("json", {}, <<>>, <<>>, <<>>),
     ConfigFile("json", {"trading"}, [loadDefaultConfig EXCEPT !.max_order_size = 5],
                <<>>, <<>>),
     ConfigFile("json", {"trading"}, [loadDefaultConfig EXCEPT !.max_loss_per_trade = 0],
                <<>>, <<>>),
     ConfigFile("json", {"trading"}, [max_position_size |-> -3], <<>>, <<>>),
     ConfigFile("json", {"trading", "network", "performance"}, loadDefaultConfig,
                DefaultNetworkConfig, [DefaultPerformanceConfig EXCEPT !.max_queue_size = 0])}

\* the process has not ended inside loadConfig
Alive == lastRisk.op # "abort"

ConfigLoad ==
    /\ Alive
    /\ \E file \in ConfigFiles, ub \in UndefinedOutcomes : LoadConfig(file, ub)
ConfigSetAny == Alive /\ \E config \in AnyTradingConfigs : SetTradingConfig(config)
ConfigSetNetwork == Alive /\ \E config \in NetworkConfigs : SetNetworkConfig(config)
ConfigSetPerformance ==
    Alive /\ \E config \in PerformanceConfigs : SetPerformanceConfig(config)
ConfigRiskCall == Alive /\ RiskCall

ConfigNext ==
    \/ ConfigLoad
    \/ ConfigSetAny
    \/ ConfigSetNetwork
    \/ ConfigSetPerformance
    \/ ConfigRiskCall

SpecConfig == Init /\ [][ConfigNext]_vars

(***************************************************************************)
(* The benchmark, driven by a caller that times operations one at a time   *)
(* per name: startOperation, recordError at most once, endOperation        *)
(***************************************************************************)
Known(operation_name) == operation_name \in DOMAIN operations_
BenchStart ==
    /\ \E operation_name \in OperationNames :
          /\ op_open[operation_name] = "none"
          /\ op_ended[operation_name].clean + op_ended[operation_name].failed
                < MaxOperations
          /\ StartOperation(operation_name)
    /\ UNCHANGED <<riskVars, storeVars, stratVars, clientVars, latencyVars, configVars,
                   moreVars>>
BenchError ==
    /\ \E operation_name \in OperationNames :
          /\ op_open[operation_name] = "started" \/ ~Known(operation_name)
          /\ RecordError(operation_name)
    /\ UNCHANGED <<riskVars, storeVars, stratVars, clientVars, latencyVars, configVars,
                   moreVars>>
BenchEnd ==
    /\ \E operation_name \in OperationNames, duration \in Durations,
          relock \in RelockOutcomes :
          /\ op_open[operation_name] # "none" \/ ~Known(operation_name)
          /\ EndOperation(operation_name, duration, relock)
    /\ UNCHANGED <<riskVars, storeVars, stratVars, clientVars, latencyVars, configVars,
                   moreVars>>

BenchNext ==
    \/ BenchStart
    \/ BenchError
    \/ BenchEnd

SpecBench == Init /\ [][BenchNext]_vars

\* the benchmark with real-time monitoring switched on and off and its
\* metrics read
BenchMonitor ==
    /\ \E enable \in BOOLEAN : EnableRealTimeMonitoring(enable)
    /\ UNCHANGED <<riskVars, storeVars, stratVars, clientVars, latencyVars, configVars,
                   moreVars>>
BenchMetrics ==
    /\ \E operation_name \in OperationNames, relock \in RelockOutcomes :
          GetLatencyMetrics(operation_name, relock)
    /\ UNCHANGED <<riskVars, storeVars, stratVars, clientVars, latencyVars, configVars,
                   moreVars>>

MonitorNext ==
    \/ BenchStart
    \/ BenchError
    \/ BenchEnd
    \/ BenchMonitor
    \/ BenchMetrics

SpecMonitor == Init /\ [][MonitorNext]_vars

(***************************************************************************)
(* The error handler, called by any caller                                 *)
(***************************************************************************)
\* the thread that called logError is not blocked inside it
HandlerFree == lastLog.st # "deadlock"
HandlerAdd ==
    /\ HandlerFree
    /\ Len(recovery_actions_) < MaxActions
    /\ \E action \in RecoveryActions : AddRecoveryAction(action)
    /\ UNCHANGED <<riskVars, storeVars, stratVars, clientVars, latencyVars, configVars,
                   benchVars, serverVars, sessionVars, historyVars>>
HandlerEnable ==
    /\ HandlerFree
    /\ \E enable \in BOOLEAN : EnableRecovery(enable)
    /\ UNCHANGED <<riskVars, storeVars, stratVars, clientVars, latencyVars, configVars,
                   benchVars, serverVars, sessionVars, historyVars>>
HandlerLog ==
    /\ HandlerFree
    /\ error_count_ < MaxErrors
    /\ \E severity \in Severities, script \in Scripts, relock \in RelockOutcomes :
          LogError(severity, script, relock)
    /\ UNCHANGED <<riskVars, storeVars, stratVars, clientVars, latencyVars, configVars,
                   benchVars, serverVars, sessionVars, historyVars>>

HandlerNext ==
    \/ HandlerAdd
    \/ HandlerEnable
    \/ HandlerLog

SpecHandler == Init /\ [][HandlerNext]_vars

(***************************************************************************)
(* The WebSocket server: callers of start, stop, broadcast and subscribe,  *)
(* and the worker threads                                                  *)
(***************************************************************************)
OutsideServer ==
    UNCHANGED <<riskVars, storeVars, stratVars, clientVars, latencyVars, configVars,
                benchVars, handlerVars, sessionVars, historyVars>>
\* a start is not issued while a stop is under way
ServerStart == stop_pc = "idle" /\ Start /\ OutsideServer
ServerStop == StopBegin /\ OutsideServer
ServerStopNotify == StopNotify /\ OutsideServer
ServerStopJoin == StopJoin /\ OutsideServer
ServerStopClear == StopClear /\ OutsideServer
ServerBroadcast ==
    /\ Len(message_queue_) < MaxQueued
    /\ \E message \in Messages, woken \in NotifyOne : Broadcast(message, woken)
    /\ OutsideServer
ServerClient ==
    /\ \E symbol \in Symbols, client \in Clients : ServerSubscribe(symbol, client)
    /\ OutsideServer
ThreadLoop == (\E w \in Workers : WorkerLoop(w)) /\ OutsideServer
ThreadLock == (\E w \in Workers : WorkerLock(w)) /\ OutsideServer
ThreadPred == (\E w \in Workers : WorkerPred(w)) /\ OutsideServer
ThreadWait == (\E w \in Workers : WorkerWait(w)) /\ OutsideServer
ThreadSpurious == (\E w \in Workers : WorkerSpurious(w)) /\ OutsideServer
ThreadProceed == (\E w \in Workers : WorkerProceed(w)) /\ OutsideServer

ServerNext ==
    \/ ServerStart
    \/ ServerStop
    \/ ServerStopNotify
    \/ ServerStopJoin
    \/ ServerStopClear
    \/ ServerBroadcast
    \/ ServerClient
    \/ ThreadLoop
    \/ ThreadLock
    \/ ThreadPred
    \/ ThreadWait
    \/ ThreadSpurious
    \/ ThreadProceed

SpecServer == Init /\ [][ServerNext]_vars

\* every thread that can take a step eventually takes it; a wake-up without
\* a notification may happen but is not owed
WorkerFairness ==
    \A w \in Workers :
        /\ WF_vars(WorkerLoop(w) /\ OutsideServer)
        /\ WF_vars(WorkerLock(w) /\ OutsideServer)
        /\ WF_vars(WorkerPred(w) /\ OutsideServer)
        /\ WF_vars(WorkerWait(w) /\ OutsideServer)
        /\ WF_vars(WorkerProceed(w) /\ OutsideServer)
SpecServerFair ==
    /\ Init /\ [][ServerNext]_vars
    /\ WorkerFairness
    /\ WF_vars(ServerStopNotify) /\ WF_vars(ServerStopJoin) /\ WF_vars(ServerStopClear)

(***************************************************************************)
(* The market data store, written by any caller, and its processing thread *)
(***************************************************************************)
StoreBookPush ==
    /\ \E orderbook \in BookValues : UpdateOrderBook(orderbook)
    /\ UNCHANGED <<toolVars, riskVars, stratVars, clientVars>>
StoreTradePush ==
    /\ \E instrument \in Instruments :
          added[instrument] < MaxAdded /\ AddTrade(instrument, 50, 1, "buy")
    /\ UNCHANGED <<toolVars, riskVars, stratVars, clientVars>>
StoreDataPush ==
    /\ \E instrument \in Instruments, last_price \in {55} :
          LET orderbook == OrderBook(instrument, <<Level(50, 1)>>, <<Level(52, 1)>>)
          IN  UpdateMarketData([orderbook |-> orderbook, trades |-> <<>>,
                                last_price |-> last_price, timestamp |-> now])
    /\ UNCHANGED <<toolVars, riskVars, stratVars, clientVars>>
StoreStart == StoreInitialize /\ UNCHANGED <<toolVars, riskVars, stratVars, clientVars>>
ThreadPop == ProcessPop /\ UNCHANGED <<toolVars, riskVars, stratVars, clientVars>>
ThreadNotify == \E relock \in RelockOutcomes : ProcessNotify(relock)
ThreadCleanup == ProcessCleanup /\ UNCHANGED <<toolVars, riskVars, stratVars, clientVars>>
ClockTick == Tick /\ UNCHANGED <<toolVars, riskVars, stratVars, clientVars>>

StoreNext ==
    \/ StoreBookPush
    \/ StoreTradePush
    \/ StoreDataPush
    \/ StoreStart
    \/ ThreadPop
    \/ ThreadNotify
    \/ ThreadCleanup
    \/ ClockTick

SpecStore == Init /\ [][StoreNext]_vars

(***************************************************************************)
(* The trade ring near its capacity                                        *)
(***************************************************************************)
\* the store after max_trades - 2 trades on one instrument went through the
\* processing thread
RingInstrument == "BTC-PERPETUAL"
RingStart == max_trades - 2
TradesStoreInit ==
    /\ market_data_ =
          MapPut(<<>>, RingInstrument,
                 [DefaultMarketData EXCEPT
                    !.trades = [k \in 1..RingStart |->
                                    Trade(RingInstrument, 50, 1, "buy", k)]])
    /\ data_queue_ = <<>>
    /\ subscribers_ = <<>>
    /\ running_ = TRUE
    /\ data_mutex_ = "free"
    /\ pm_pc = "loop"
    /\ pm_data = DefaultMarketData
    /\ recent_trades = <<>>
    /\ now = 0
    /\ lastTrades = [instrument |-> "", count |-> 0, threw |-> FALSE, trades |-> <<>>]
    /\ added = [i \in Instruments |-> IF i = RingInstrument THEN RingStart ELSE 0]
    /\ lastBook = <<>>
    /\ evicted = {}
    /\ ReaderInit

TradeCounts == {0, 1, max_trades - 1, max_trades, max_trades + 1}
TradesTradePush ==
    /\ added[RingInstrument] < max_trades + 1 + MaxAdded
    /\ AddTrade(RingInstrument, 50, 1, "buy")
    /\ UNCHANGED <<toolVars, riskVars, stratVars, clientVars>>
TradesRead ==
    /\ \E instrument \in Instruments, count \in TradeCounts :
          GetRecentTrades(instrument, count)
    /\ UNCHANGED <<toolVars, riskVars, stratVars, clientVars>>

TradesNext ==
    \/ TradesTradePush
    \/ TradesRead
    \/ ThreadPop
    \/ ThreadNotify
    \/ ThreadCleanup

TradesInit == RiskInit /\ TradesStoreInit /\ StrategyInit /\ ClientInit /\ ToolInit
SpecTrades == TradesInit /\ [][TradesNext]_vars

(***************************************************************************)
(* The strategy loop behind the store's notifications                      *)
(***************************************************************************)
StrategyStart == StrategyInitialize /\ UNCHANGED <<toolVars, riskVars, clientVars>>
StrategyAdd ==
    /\ \E config \in StrategyConfigs : AddStrategy(config)
    /\ UNCHANGED <<toolVars, riskVars, storeVars, clientVars>>
StrategyEnable ==
    /\ \E name \in DOMAIN strategies_ : EnableStrategy(name, ~strategies_[name].enabled)
    /\ UNCHANGED <<toolVars, riskVars, storeVars, clientVars>>
TradeCallbackSet ==
    /\ ~trade_callback_
    /\ SetTradeCallback(TRUE)
    /\ UNCHANGED <<toolVars, riskVars, storeVars, clientVars>>
\* updates waiting in data_queue_ while the strategies are driven
MaxPending == 1
StrategyBookPush ==
    /\ Len(data_queue_) < MaxPending
    /\ \E orderbook \in {b \in BookValues : /\ b.instrument = "BTC-PERPETUAL"
                                              /\ Len(b.asks) = 1} :
          UpdateOrderBook(orderbook)
    /\ UNCHANGED <<toolVars, riskVars, stratVars, clientVars>>
StrategyDataPush ==
    /\ Len(data_queue_) < MaxPending
    /\ LET orderbook == OrderBook("BTC-PERPETUAL", <<Level(50, 1)>>, <<Level(52, 1)>>)
       IN  \E last_price \in {51, 55} :
             UpdateMarketData([orderbook |-> orderbook, trades |-> <<>>,
                               last_price |-> last_price, timestamp |-> now])
    /\ UNCHANGED <<toolVars, riskVars, stratVars, clientVars>>
StrategyRiskMetricsPush ==
    \E metrics \in {m \in MetricsValues : m.total_exposure > 0} : UpdateRiskMetrics(metrics)

StrategyNext ==
    \/ StrategyStart
    \/ StrategyAdd
    \/ StrategyEnable
    \/ TradeCallbackSet
    \/ StrategyBookPush
    \/ StrategyDataPush
    \/ StrategyRiskMetricsPush
    \/ StoreStart
    \/ ThreadPop
    \/ ThreadNotify
    \/ ThreadCleanup

SpecStrategy == Init /\ [][StrategyNext]_vars

(***************************************************************************)
(* The exchange session: inbound frames into the store, orders outbound    *)
(***************************************************************************)
Subscription(channel, data) ==
    JObj([jsonrpc |-> JStr("2.0"), method |-> JStr("subscription"),
          params |-> JObj([channel |-> JStr(channel), data |-> data])])
LevelJson(price, size) == JArr(<<JNum(price), JNum(size)>>)
BookJson(bids, asks) == JObj([bids |-> JArr(bids), asks |-> JArr(asks)])
TradeJson == JObj([price |-> JNum(50), amount |-> JNum(1), direction |-> JStr("buy")])
OrderJson ==
    JObj([order_id |-> JStr("o1"), instrument_name |-> JStr("BTC-PERPETUAL"),
          direction |-> JStr("buy"), amount |-> JNum(1), price |-> JNum(60),
          order_type |-> JStr("limit"), order_state |-> JStr("open")])
PositionJson ==
    JObj([instrument_name |-> JStr("BTC-PERPETUAL"), size |-> JNum(1),
          average_price |-> JNum(60), mark_price |-> JNum(61),
          estimated_liquidation_price |-> JNum(5), floating_profit_loss |-> JNum(1),
          realized_profit_loss |-> JNum(0)])

\* pushes that have the shape the handler reads
BookFrames ==
    {Subscription("book.BTC-PERPETUAL.100ms",
                  BookJson(<<LevelJson(50, 1), LevelJson(49, 2)>>, <<LevelJson(51, 1)>>)),
     Subscription("book.ETH-PERPETUAL.raw", BookJson(<<>>, <<LevelJson(31, 1)>>))}
TradeFrames == {Subscription("trades.BTC-PERPETUAL.100ms", TradeJson)}
UserFrames ==
    {Subscription("user.orders.BTC-PERPETUAL.raw", JObj([order |-> OrderJson])),
     Subscription("user.portfolio.btc", JObj([position |-> PositionJson])),
     Subscription("user.trades.BTC-PERPETUAL.raw", JObj([trades |-> JArr(<<>>)]))}
OtherChannelFrames ==
    {Subscription("ticker.BTC-PERPETUAL.raw", JObj([last_price |-> JNum(50)])),
     Subscription("book", BookJson(<<>>, <<LevelJson(51, 1)>>))}
ResponseFrames ==
    {JObj([jsonrpc |-> JStr("2.0"), id |-> JNum(9931),
           result |-> JObj([order_id |-> JStr("o1")])])}

\* frames that are not JSON, that carry neither tag, or that lack what the
\* handler reads
UnparseableFrames == {Unparseable}
UnrecognizedFrames ==
    {JObj([jsonrpc |-> JStr("2.0")]), JObj([method |-> JStr("heartbeat")]), JArr(<<>>)}
MissingFieldFrames ==
    {JObj([method |-> JStr("subscription")]),
     JObj([method |-> JStr("subscription"), params |-> JObj([data |-> TradeJson])]),
     JObj([method |-> JStr("subscription"),
           params |-> JObj([channel |-> JNum(5), data |-> TradeJson])]),
     JObj([method |-> JStr("subscription"),
           params |-> JObj([channel |-> JStr("book.BTC-PERPETUAL.100ms")])]),
     Subscription("book.BTC-PERPETUAL.100ms", JObj([asks |-> JArr(<<LevelJson(51, 1)>>)])),
     Subscription("book.BTC-PERPETUAL.100ms", BookJson(<<JArr(<<JNum(50)>>)>>, <<>>)),
     Subscription("book.BTC-PERPETUAL.100ms",
                  BookJson(<<JArr(<<JStr("new"), JNum(50), JNum(1)>>)>>, <<>>)),
     Subscription("trades.BTC-PERPETUAL.100ms", JArr(<<TradeJson>>)),
     Subscription("trades.BTC-PERPETUAL.100ms",
                  JObj([amount |-> JNum(1), direction |-> JStr("buy")])),
     Subscription("user.orders.BTC-PERPETUAL.raw",
                  JObj([order |-> JObj([order_id |-> JStr("o1")])]))}
MalformedFrames == UnparseableFrames \cup UnrecognizedFrames \cup MissingFieldFrames
Frames ==
    BookFrames \cup TradeFrames \cup UserFrames \cup OtherChannelFrames
    \cup ResponseFrames \cup MalformedFrames

\* the calls a frame leads to fit the bounds of the model
FitsBounds(message, ub) ==
    LET r == handleWebSocketMessage(message, ub)
    IN  (r.st = "ok" /\ r.v # <<>> /\ r.v[1].op = "addTrade")
            => added[r.v[1].instrument] < MaxAdded

\* nothing runs once the process was terminated
SessionStart ==
    ~crashed /\ ClientInitialize /\ UNCHANGED <<toolVars, riskVars, storeVars, stratVars>>
SessionCallbacks ==
    ~crashed /\ RegisterCallbacks /\ UNCHANGED <<toolVars, riskVars, storeVars, stratVars>>
SessionFrame ==
    /\ ~crashed
    /\ \E message \in Frames, ub \in UndefinedOutcomes :
          FitsBounds(message, ub) /\ HandleWebSocketMessage(message, ub)
    /\ UNCHANGED <<toolVars, riskVars, stratVars>>
SessionPlace ==
    /\ ~crashed
    /\ \E request \in OrderRequests : PlaceOrder(request)
    /\ UNCHANGED <<toolVars, riskVars, storeVars, stratVars>>
SessionCancel ==
    /\ ~crashed
    /\ CancelOrder("o1")
    /\ UNCHANGED <<toolVars, riskVars, storeVars, stratVars>>
SessionModify ==
    /\ ~crashed
    /\ \E request \in OrderRequests : ModifyOrder("o1", request.size, request.price)
    /\ UNCHANGED <<toolVars, riskVars, storeVars, stratVars>>
\* a caller that asks the risk engine about a request
SessionRiskCheck ==
    /\ ~crashed
    /\ \E request \in OrderRequests :
          CheckOrderRisk(request.instrument, request.size, request.price, request.side)

InboundNext ==
    \/ SessionCallbacks
    \/ SessionFrame

OutboundNext ==
    \/ SessionStart
    \/ SessionPlace
    \/ SessionCancel
    \/ SessionModify
    \/ SessionRiskCheck

SpecInbound == Init /\ [][InboundNext]_vars
SpecOutbound == Init /\ [][OutboundNext]_vars

(***************************************************************************)
(* Book frames of any quality, from the exchange into the store            *)
(***************************************************************************)
\* a sorted book, a book whose levels come in the opposite order, and a
\* crossed book
QualityFrames ==
    {Subscription("book.BTC-PERPETUAL.100ms",
                  BookJson(<<LevelJson(50, 1), LevelJson(49, 2)>>,
                           <<LevelJson(51, 1), LevelJson(52, 2)>>)),
     Subscription("book.BTC-PERPETUAL.100ms",
                  BookJson(<<LevelJson(49, 2), LevelJson(50, 1)>>,
                           <<LevelJson(52, 2), LevelJson(51, 1)>>)),
     Subscription("book.BTC-PERPETUAL.100ms",
                  BookJson(<<LevelJson(52, 1)>>, <<LevelJson(51, 1)>>))}
BooksFrame ==
    /\ ~crashed
    /\ \E message \in QualityFrames \cup UnparseableFrames, ub \in UndefinedOutcomes :
          HandleWebSocketMessage(message, ub)
    /\ UNCHANGED <<toolVars, riskVars, stratVars>>
BooksQuery ==
    /\ \E fn \in {"getBestBid", "getBestAsk"} : PriceQuery(fn, "BTC-PERPETUAL")
    /\ UNCHANGED <<toolVars, riskVars, stratVars, clientVars>>

BooksNext ==
    \/ SessionCallbacks
    \/ BooksFrame
    \/ BooksQuery
    \/ StoreStart
    \/ ThreadPop
    \/ ThreadNotify
    \/ ThreadCleanup

SpecBooks == Init /\ [][BooksNext]_vars

(***************************************************************************)
(* The channel of the session: connect, requests, responses, drop and      *)
(* reconnect                                                               *)
(***************************************************************************)
AuthResponse ==
    JObj([jsonrpc |-> JStr("2.0"), id |-> JNum(9929),
          result |-> JObj([access_token |-> JStr("t1")])])
ChannelFrames == ResponseFrames \cup {AuthResponse}

\* a frame arrives on the socket in use and its message handler runs
ChannelResponse ==
    /\ ~crashed
    /\ is_connected_ /\ HandlersSet
    /\ \E message \in ChannelFrames, ub \in UndefinedOutcomes :
          HandleWebSocketMessage(message, ub)
    /\ UNCHANGED <<toolVars, riskVars, stratVars>>
ChannelSubscribeBook ==
    /\ ~crashed
    /\ SubscribeToOrderBook("BTC-PERPETUAL")
    /\ UNCHANGED <<toolVars, riskVars, storeVars, stratVars>>
ChannelSubscribeTrades ==
    /\ ~crashed
    /\ SubscribeToTrades("BTC-PERPETUAL")
    /\ UNCHANGED <<toolVars, riskVars, storeVars, stratVars>>
ChannelSubscribeUser ==
    ~crashed /\ SubscribeToUserData /\ UNCHANGED <<toolVars, riskVars, storeVars, stratVars>>
\* the transport closes the socket
ChannelClose ==
    ~crashed /\ CloseHandler /\ UNCHANGED <<toolVars, riskVars, storeVars, stratVars>>
ChannelReconnect ==
    /\ ~crashed
    /\ \E outcome \in ConnectOutcomes, escape \in EscapeOutcomes :
          ReconnectWebSocket(outcome, escape)
    /\ UNCHANGED <<toolVars, riskVars, storeVars, stratVars>>

ChannelNext ==
    \/ SessionStart
    \/ SessionCallbacks
    \/ SessionPlace
    \/ SessionCancel
    \/ SessionModify
    \/ ChannelResponse
    \/ ChannelSubscribeBook
    \/ ChannelSubscribeTrades
    \/ ChannelSubscribeUser
    \/ ChannelClose
    \/ ChannelReconnect

SpecChannel == Init /\ [][ChannelNext]_vars

\* the session with a caller that shuts it down
SessionShutdown ==
    /\ ~crashed
    /\ Shutdown
    /\ UNCHANGED <<latencyVars, configVars, benchVars, handlerVars, serverVars,
                   historyVars, riskVars, storeVars, stratVars>>
ShutdownNext ==
    \/ SessionStart
    \/ SessionCallbacks
    \/ SessionPlace
    \/ ChannelResponse
    \/ ChannelSubscribeBook
    \/ ChannelClose
    \/ ChannelReconnect
    \/ SessionShutdown

SpecShutdown == Init /\ [][ShutdownNext]_vars

(***************************************************************************)
(* Orders: requests outbound, order pushes inbound                         *)
(***************************************************************************)
OrderStates == {"open", "filled", "cancelled", "rejected"}
OrderPushJson(state) ==
    JObj([order_id |-> JStr("o1"), instrument_name |-> JStr("BTC-PERPETUAL"),
          direction |-> JStr("buy"), amount |-> JNum(1), price |-> JNum(60),
          order_type |-> JStr("limit"), order_state |-> JStr(state)])
OrderFrames ==
    {Subscription("user.orders.BTC-PERPETUAL.raw", JObj([order |-> OrderPushJson(state)])) :
        state \in OrderStates}

\* the exchange pushes the state of the order
OrdersPush ==
    /\ ~crashed
    /\ is_connected_ /\ HandlersSet
    /\ \E message \in OrderFrames, ub \in UndefinedOutcomes :
          HandleWebSocketMessage(message, ub)
    /\ UNCHANGED <<toolVars, riskVars, stratVars>>

OrdersNext ==
    \/ SessionStart
    \/ SessionCallbacks
    \/ SessionPlace
    \/ SessionCancel
    \/ OrdersPush

SpecOrders == Init /\ [][OrdersNext]_vars

(***************************************************************************)
(* Applications subscribed to the store's notifications                    *)
(***************************************************************************)
NotifySubscribe ==
    /\ \E instrument \in Instruments, owner \in {"Listener", "Thrower"} :
          SubscribeToMarketData(instrument, owner)
    /\ UNCHANGED <<toolVars, riskVars, clientVars>>
NotifyBookPush ==
    /\ Len(data_queue_) < MaxPending
    /\ \E orderbook \in {b \in BookValues : Len(b.asks) = 1} : UpdateOrderBook(orderbook)
    /\ UNCHANGED <<toolVars, riskVars, stratVars, clientVars>>
NotifyTradePush ==
    /\ Len(data_queue_) < MaxPending
    /\ \E instrument \in Instruments :
          added[instrument] < MaxAdded /\ AddTrade(instrument, 50, 1, "buy")
    /\ UNCHANGED <<toolVars, riskVars, stratVars, clientVars>>
NotifyDataPush ==
    /\ Len(data_queue_) < MaxPending
    /\ LET orderbook == OrderBook("ETH-PERPETUAL", <<Level(50, 1)>>, <<Level(52, 1)>>)
       IN  UpdateMarketData([orderbook |-> orderbook, trades |-> <<>>,
                             last_price |-> 55, timestamp |-> now])
    /\ UNCHANGED <<toolVars, riskVars, stratVars, clientVars>>

NotifyNext ==
    \/ NotifySubscribe
    \/ NotifyBookPush
    \/ NotifyTradePush
    \/ NotifyDataPush
    \/ StoreStart
    \/ ThreadPop
    \/ ThreadNotify
    \/ ThreadCleanup

SpecNotify == Init /\ [][NotifyNext]_vars

\* ---- a listener on one instrument while updates queue up behind the
\* processing thread
FifoSubscribe ==
    /\ SubscribeToMarketData("BTC-PERPETUAL", "Listener")
    /\ UNCHANGED <<toolVars, riskVars, clientVars>>
FifoBookPush ==
    /\ \E orderbook \in {b \in BookValues : /\ b.instrument = "BTC-PERPETUAL"
                                              /\ Len(b.asks) = 1} :
          UpdateOrderBook(orderbook)
    /\ UNCHANGED <<toolVars, riskVars, stratVars, clientVars>>
FifoTradePush ==
    /\ added["BTC-PERPETUAL"] < MaxAdded /\ AddTrade("BTC-PERPETUAL", 50, 1, "buy")
    /\ UNCHANGED <<toolVars, riskVars, stratVars, clientVars>>
FifoDataPush ==
    /\ LET orderbook == OrderBook("BTC-PERPETUAL", <<Level(50, 1)>>, <<Level(52, 1)>>)
       IN  UpdateMarketData([orderbook |-> orderbook, trades |-> <<>>,
                             last_price |-> 55, timestamp |-> now])
    /\ UNCHANGED <<toolVars, riskVars, stratVars, clientVars>>

FifoNext ==
    \/ FifoSubscribe
    \/ FifoBookPush
    \/ FifoTradePush
    \/ FifoDataPush
    \/ StoreStart
    \/ ThreadPop
    \/ ThreadNotify
    \/ ThreadCleanup

SpecFifo == Init /\ [][FifoNext]_vars

(***************************************************************************)
(* Price queries on the store                                              *)
(***************************************************************************)
QueryBookPush ==
    /\ Len(data_queue_) < MaxPending
    /\ \E orderbook \in BookValues : UpdateOrderBook(orderbook)
    /\ UNCHANGED <<toolVars, riskVars, stratVars, clientVars>>
QueryCall ==
    /\ \E fn \in PriceQueries, instrument \in Instruments : PriceQuery(fn, instrument)
    /\ UNCHANGED <<toolVars, riskVars, stratVars, clientVars>>

QueryNext ==
    \/ QueryBookPush
    \/ NotifyTradePush
    \/ QueryCall
    \/ StoreStart
    \/ ThreadPop
    \/ ThreadNotify
    \/ ThreadCleanup
    \/ ClockTick

SpecQuery == Init /\ [][QueryNext]_vars

(***************************************************************************)
(* The sweep of stale entries: the processing thread under fair scheduling *)
(***************************************************************************)
SweepNext ==
    \/ StoreBookPush
    \/ StoreStart
    \/ ThreadPop
    \/ ThreadNotify
    \/ ThreadCleanup
    \/ ClockTick

\* the thread, once started, keeps running its loop, and time passes
SpecSweep ==
    /\ Init
    /\ [][SweepNext]_vars
    /\ WF_vars(ThreadPop)
    /\ WF_vars(ThreadNotify)
    /\ WF_vars(ThreadCleanup)
    /\ WF_vars(ClockTick)

(***************************************************************************)
(* One writer inside updateOrderBook, one reader using a returned book     *)
(***************************************************************************)
ReadersBooks == {b \in BookValues : b.instrument = "BTC-PERPETUAL"}
WriterBegin ==
    /\ \E orderbook \in ReadersBooks : BeginUpdateOrderBook(orderbook)
    /\ UNCHANGED <<toolVars, riskVars, stratVars, clientVars>>
WriterBids == AssignBids /\ UNCHANGED <<toolVars, riskVars, stratVars, clientVars>>
WriterAsks == AssignAsks /\ UNCHANGED <<toolVars, riskVars, stratVars, clientVars>>
ReaderGet ==
    /\ \E instrument \in Instruments : GetOrderBook(instrument)
    /\ UNCHANGED <<toolVars, riskVars, stratVars, clientVars>>
ReaderBids == ReadBids /\ UNCHANGED <<toolVars, riskVars, stratVars, clientVars>>
ReaderAsks == ReadAsks /\ UNCHANGED <<toolVars, riskVars, stratVars, clientVars>>

ReadersNext ==
    \/ WriterBegin
    \/ WriterBids
    \/ WriterAsks
    \/ ReaderGet
    \/ ReaderBids
    \/ ReaderAsks
    \/ StoreStart
    \/ ThreadPop
    \/ ThreadNotify
    \/ ThreadCleanup
    \/ ClockTick

SpecReaders == Init /\ [][ReadersNext]_vars

(***************************************************************************)
(* The latency recorder, near the capacity of a window and after a reset   *)
(***************************************************************************)
LatencyEnd ==
    /\ \E operation_id \in OperationIds, latency \in Samples : End(operation_id, latency)
    /\ UNCHANGED <<configVars, benchVars, moreVars, riskVars, storeVars, stratVars,
                   clientVars>>
LatencyTrack ==
    /\ \E operation_id \in OperationIds, latency \in Samples :
          Track(operation_id, latency)
    /\ UNCHANGED <<configVars, benchVars, moreVars, riskVars, storeVars, stratVars,
                   clientVars>>
LatencyStats ==
    /\ \E operation_id \in OperationIds, indeterminate \in IndeterminateStats :
          GetStats(operation_id, indeterminate)
    /\ UNCHANGED <<configVars, benchVars, moreVars, riskVars, storeVars, stratVars,
                   clientVars>>
LatencyReset ==
    /\ ResetStats
    /\ UNCHANGED <<configVars, benchVars, moreVars, riskVars, storeVars, stratVars,
                   clientVars>>

LatencyNext ==
    \/ LatencyEnd
    \/ LatencyTrack
    \/ LatencyStats
    \/ LatencyReset

\* ---- the recorder with callers that change the capacity of the windows
\* and ask for the history of an operation; a call blocked inside the module
\* holds mutex_, so no later call gets in
HistoryEnd ==
    /\ lastHist.st # "blocked"
    /\ \E operation_id \in OperationIds, latency \in Samples :
          /\ \A other \in OperationIds \ {operation_id} :
                 recorded[operation_id] + recorded[other] < MaxSmallWindow
          /\ End(operation_id, latency)
    /\ UNCHANGED <<configVars, benchVars, moreVars, riskVars, storeVars, stratVars,
                   clientVars>>
HistorySetSize ==
    /\ lastHist.st # "blocked"
    /\ \E size \in HistorySizes : SetHistorySize(size)
    /\ UNCHANGED <<configVars, benchVars, handlerVars, serverVars, sessionVars,
                   riskVars, storeVars, stratVars, clientVars>>
HistoryStats ==
    /\ lastHist.st # "blocked"
    /\ \E operation_id \in OperationIds, relock \in RelockOutcomes :
          GetHistoricalStats(operation_id, relock)
    /\ UNCHANGED <<configVars, benchVars, handlerVars, serverVars, sessionVars,
                   riskVars, storeVars, stratVars, clientVars>>
HistoryNext ==
    \/ HistoryEnd
    \/ HistorySetSize
    \/ HistoryStats

SpecHistory == Init /\ [][HistoryNext]_vars

NearFullInit ==
    MoreInit /\ RiskInit /\ StoreInit /\ StrategyInit /\ ClientInit
    /\ NearFullLatencyInit /\ ConfigInit /\ BenchInit
SpecLatency == NearFullInit /\ [][LatencyNext]_vars

(***************************************************************************)
(* The session as a whole                                                  *)
(***************************************************************************)
Next == InboundNext \/ OutboundNext
Spec == Init /\ [][Next]_vars

(***************************************************************************)
(* Market Data Store claims                                                *)
(***************************************************************************)
BookApplied(instrument) == instrument \in DOMAIN lastBook
ReaderSees(instrument, orderbook) ==
    getOrderBook(instrument) = [threw |-> FALSE, orderbook |-> orderbook]

\* C1 as stated: on every instrument that had a book applied, a reader calling
\* getOrderBook gets the book of the most recently applied update.
C1_ReaderSeesLatestBook ==
    \A i \in Instruments : BookApplied(i) => ReaderSees(i, lastBook[i])

\* C1, amended: a reader gets the book of the most recently applied update,
\* unless cleanupOldData erased the instrument since that update; then
\* getOrderBook fails with no data, or returns the empty book of an entry that
\* addTrade created anew. No reader gets an older book.
C1_LatestBookUnlessEvicted ==
    \A i \in Instruments :
        BookApplied(i) =>
            IF i \in evicted
            THEN getOrderBook(i).threw \/ ReaderSees(i, DefaultMarketData.orderbook)
            ELSE ReaderSees(i, lastBook[i])

\* a second book replaced an older one that still waits in the queue, and the
\* reader gets the second; another instrument was erased and its reader fails
C1_Witness ==
    \E i, j \in Instruments :
        /\ BookApplied(i) /\ i \notin evicted
        /\ data_queue_ # <<>>
        /\ data_queue_[1].orderbook.instrument = i
        /\ data_queue_[1].orderbook # lastBook[i]
        /\ ReaderSees(i, lastBook[i])
        /\ BookApplied(j) /\ j \in evicted
        /\ getOrderBook(j).threw

Min(a, b) == IF a < b THEN a ELSE b
\* the trades of an instrument numbered first..last, in arrival order
Arrivals(instrument, first, last) ==
    [k \in 1..((last - first) + 1) |-> Trade(instrument, 50, 1, "buy", (first + k) - 1)]
RingHoldsLatest(market_data, count) ==
    \A i \in DOMAIN market_data :
        LET stored == Min(count[i], max_trades)
        IN  /\ Len(market_data[i].trades) <= max_trades
            /\ market_data[i].trades = Arrivals(i, (count[i] - stored) + 1, count[i])

NotifyStep == pm_pc = "notify" /\ pm_pc' # "notify"
TradesOf(evs, name) ==
    Cardinality({k \in 1..Len(evs) : evs[k].ev = "trade" /\ evs[k].name = name})

\* C7: every trade the strategy loop emits (executeTrade and the trade
\* callback) comes right after a checkOrderRisk that returned true for the
\* strategy's instrument and the size, price and side of the trade; a rejected
\* check is followed by no trade, and a strategy's trade count grows by the
\* trades emitted for it and by nothing else.
C7_TradesAreRiskGated ==
    [][/\ NotifyStep =>
            /\ \A k \in 1..Len(events') :
                 events'[k].ev = "trade" =>
                    /\ k > 1
                    /\ LET check == events'[k - 1]
                           trade == events'[k]
                       IN  /\ check.ev = "check"
                           /\ check.risk.result
                           /\ checkOrderRisk(check.order.instrument, check.order.size,
                                             check.order.price, check.order.side).result
                           /\ check.name = trade.name
                           /\ check.order.instrument = strategies_[trade.name].instrument
                           /\ <<check.order.size, check.order.price, check.order.side>>
                                = <<trade.order.size, trade.order.price, trade.order.side>>
                           /\ trade.notified = trade_callback_
            /\ \A k \in 1..Len(events') :
                 (events'[k].ev = "check" /\ ~events'[k].risk.result) =>
                    (k = Len(events') \/ events'[k + 1].ev # "trade")
            /\ \A name \in DOMAIN strategy_metrics_ :
                 strategy_metrics_'[name].total_trades =
                    strategy_metrics_[name].total_trades + TradesOf(events', name)
       /\ ~NotifyStep =>
            \A name \in DOMAIN strategy_metrics_ :
                strategy_metrics_'[name].total_trades = strategy_metrics_[name].total_trades
      ]_vars

\* one notification: an approved check with its trade and callback for one
\* strategy, a rejected check with no trade for the other
C7_Witness ==
    /\ Len(events) = 3
    /\ events[1].ev = "check" /\ events[1].risk.result
    /\ events[2].ev = "trade" /\ events[2].notified
    /\ events[3].ev = "check" /\ ~events[3].risk.result
    /\ strategy_metrics_["mean_reversion"].total_trades = 1
    /\ strategy_metrics_["momentum"].total_trades = 0

(***************************************************************************)
(* Exchange Session claims                                                 *)
(***************************************************************************)
OrderActionFrame(frame) ==
    frame.method \in {"private/buy", "private/buyprivate/sell", "private/edit"}
ApprovedBefore(frame) ==
    \E a \in approved :
        /\ a.size = frame.amount
        /\ a.price = frame.price
        /\ \/ frame.method = "private/edit"
           \/ /\ a.instrument = frame.instrument_name
              /\ a.side = (IF frame.method = "private/buy" THEN "buy" ELSE "sell")

\* C8 as stated: every order-action frame handed to the socket (placeOrder,
\* modifyOrder) is for an order that checkOrderRisk approved before.
C8_OrdersApprovedBeforeSent ==
    \A k \in 1..Len(sent) : OrderActionFrame(sent[k]) => ApprovedBefore(sent[k])

\* the channel of a frame tagged as a subscription push, when it has one
IsSubscription(message) ==
    /\ contains(message, "method")
    /\ message.o.method.t = "string"
    /\ message.o.method.s = "subscription"
HasChannel(message) ==
    /\ IsSubscription(message)
    /\ contains(message, "params")
    /\ contains(message.o.params, "channel")
    /\ message.o.params.o.channel.t = "string"
ChannelOf(message) == message.o.params.o.channel.s

\* C9 as stated: a subscription frame is dispatched by the prefix of its
\* channel and by nothing else: book.<I>.* makes exactly one updateOrderBook
\* on I, trades.<I>.* exactly one addTrade on I, user.* exactly one order or
\* position update, and any other prefix makes no call at all.
C9_DispatchByPrefixOnly ==
    HasChannel(lastFrame.message) =>
        LET channel == ChannelOf(lastFrame.message)
            ops == lastFrame.ops
        IN  IF starts_with(channel, "book.")
            THEN /\ Len(ops) = 1
                 /\ ops[1].op = "updateOrderBook"
                 /\ ops[1].instrument = channel_instrument(channel)
            ELSE IF starts_with(channel, "trades.")
            THEN /\ Len(ops) = 1
                 /\ ops[1].op = "addTrade"
                 /\ ops[1].instrument = channel_instrument(channel)
            ELSE IF starts_with(channel, "user.")
            THEN /\ Len(ops) = 1
                 /\ ops[1].op \in {"order_callback", "position_callback"}
            ELSE ops = <<>>

\* C10 as stated: the handler returns normally from every frame that is
\* unparseable, unrecognized or lacks a field it reads; the store and the risk
\* engine are as before the frame, and the process lives on for the next frame.
C10_MalformedFramesDropped ==
    [][\A message \in MalformedFrames, ub \in UndefinedOutcomes :
          HandleWebSocketMessage(message, ub) =>
             /\ lastFrame'.st # "abort"
             /\ ~crashed'
             /\ UNCHANGED <<market_data_, data_queue_>>
             /\ UNCHANGED <<trading_config_, positions_, risk_metrics_>>]_vars

(***************************************************************************)
(* Channel claims                                                          *)
(***************************************************************************)
\* the response to a call was handled on the connection that carried the call
Answered(call) == <<call.connection, call.id>> \in responses
\* the caller of the order action still waits for its result
StillPending(call) == call.returned = "pending_order_id"

\* C11 as stated: an order action is resolved in one way only, by the handled
\* response that carries its id or by a Timeout error: a call that has its
\* result had its response handled or timed out, and a call whose response
\* was handled is pending no more.
C11_ResolvedByResponseOrTimeout ==
    \A k \in 1..Len(calls) :
        /\ ~StillPending(calls[k]) =>
              (Answered(calls[k]) \/ calls[k].returned = "Timeout")
        /\ Answered(calls[k]) => ~StillPending(calls[k])

\* C12 as stated: no two request frames handed to the socket in one session
\* carry the same id.
C12_CorrelationIdsDistinct ==
    \A j, k \in 1..Len(sent) : j # k => sent[j].id # sent[k].id

\* the connection that carried the call is gone
Dropped(call) == call.connection < connection \/ ~is_connected_

\* C13 as stated: an order action that was in flight when its connection
\* dropped is resolved with a ConnectionLost error.
C13_InFlightFailedOnDrop ==
    \A k \in 1..Len(calls) :
        (Dropped(calls[k]) /\ ~Answered(calls[k])) =>
            calls[k].returned = "ConnectionLost"

\* the messages the error callback gets for a mere close of the socket or for
\* a frame the handler could not process
RoutineErrors == {"WebSocket connection closed", "Error processing WebSocket message"}

\* C14 as stated: an outage whose reconnect attempts all failed ends with a
\* fatal connectivity error given to the operator, and the process goes on
\* without retrying.
C14_FatalErrorAfterRetries ==
    close_pc = "failed" => (~crashed /\ errors \ RoutineErrors # {})

\* C15 as stated: a session that is connected again after a reconnect has
\* sent its authentication on the new connection and has asked again for
\* every channel that was subscribed before the drop.
C15_ResubscribedAfterReconnect ==
    (is_connected_ /\ connection > 1) =>
        /\ Cardinality({k \in 1..Len(sent) : sent[k].id = 9929}) = connection
        /\ subscribed = requested

\* the state of the channel, read off the session: Connecting is part of the
\* call that connects and is no state of its own here
Authenticated == <<connection, 9929>> \in responses
ChannelState ==
    IF ~is_connected_ THEN "Disconnected"
    ELSE IF Authenticated THEN "Ready" ELSE "Authenticating"
RequestSent == Len(sent') = Len(sent) + 1 /\ sent'[Len(sent')].id # 9929

\* C16 as stated: the channel reaches Authenticating only from Disconnected
\* and Ready only from Authenticating, and an order or subscribe frame is
\* sent only in Ready.
C16_FramesOnlyInReady ==
    [][/\ ChannelState' = "Authenticating" =>
             ChannelState \in {"Disconnected", "Authenticating"}
       /\ ChannelState' = "Ready" => ChannelState \in {"Authenticating", "Ready"}
       /\ RequestSent => ChannelState = "Ready"]_vars

(***************************************************************************)
(* Order lifecycle claims                                                  *)
(***************************************************************************)
TerminalStates == {"filled", "cancelled", "rejected"}
\* the order ids the session has heard of, from its requests and pushes
KnownOrders == {"o1"}

\* C17 as stated: once the status of an order is filled, cancelled or
\* rejected, no later push changes the status the session reports for it.
C17_TerminalStatusIsFinal ==
    [][\A id \in KnownOrders :
          (id \in DOMAIN order_status /\ order_status[id] \in TerminalStates) =>
              order_status'[id] = order_status[id]]_vars

(***************************************************************************)
(* End-to-end claims                                                       *)
(***************************************************************************)
IsPositionPush(message) ==
    /\ HasChannel(message)
    /\ starts_with(ChannelOf(message), "user.")
    /\ contains(message.o.params, "data")
    /\ contains(message.o.params.o.data, "position")
PushedPosition(message) == message.o.params.o.data.o.position.o

\* C18 as stated, its first half: after the handler has processed a push on
\* the user channel that reports a position, the Risk Engine holds a position
\* for that instrument with the pushed size and average entry price.
C18_PositionPushReachesRisk ==
    (IsPositionPush(lastFrame.message) /\ lastFrame.st = "ok") =>
        LET pushed == PushedPosition(lastFrame.message)
            instrument == pushed.instrument_name.s
        IN  /\ instrument \in DOMAIN positions_
            /\ positions_[instrument].size = pushed.size.n
            /\ positions_[instrument].avg_price = pushed.average_price.n

(***************************************************************************)
(* Notification claims                                                     *)
(***************************************************************************)
CallbacksOf(instrument) ==
    IF instrument \in DOMAIN subscribers_ THEN subscribers_[instrument] ELSE <<>>
Throwers(callbacks) == {k \in 1..Len(callbacks) : callbacks[k].owner = "Thrower"}

\* C21: a notification on an instrument with a throwing callback invokes every
\* callback registered for the instrument once, in registration order, the
\* ones after the throwing one included, and leaves the thread neither
\* terminated nor blocked: it releases the mutex and stands before
\* cleanupOldData and its next iteration.
C21_ThrowingCallbackIsolated ==
    [][(NotifyStep /\ Throwers(CallbacksOf(pm_data.orderbook.instrument)) # {}) =>
         /\ pm_pc' = "cleanup"
         /\ data_mutex_' = "free"
         /\ Len(invoked') = Len(CallbacksOf(pm_data.orderbook.instrument))
         /\ \A k \in 1..Len(invoked') :
               /\ invoked'[k].callback = CallbacksOf(pm_data.orderbook.instrument)[k]
               /\ invoked'[k].threw = (invoked'[k].callback.owner = "Thrower")]_vars

\* a thrower registered before a listener: both were invoked for the update
C21_Witness ==
    /\ pm_pc = "cleanup"
    /\ Len(invoked) = 2
    /\ invoked[1].threw /\ invoked[1].callback.owner = "Thrower"
    /\ ~invoked[2].threw /\ invoked[2].callback.owner = "Listener"

\* the instrument an update was made on: the key its entry is stored under
\* (addTrade stores under trade.instrument, the other two under
\* orderbook.instrument)
UpdatedInstrument(data) ==
    IF data.trades # <<>> THEN data.trades[Len(data.trades)].instrument
    ELSE data.orderbook.instrument

\* C22 as stated: the notification of an update made on instrument I invokes
\* each callback subscribed to I exactly once, and no callback subscribed to
\* another instrument.
C22_OneNotificationPerUpdate ==
    [][NotifyStep =>
         /\ Len(invoked') = Len(CallbacksOf(UpdatedInstrument(pm_data)))
         /\ \A k \in 1..Len(invoked') :
               invoked'[k].callback = CallbacksOf(UpdatedInstrument(pm_data))[k]]_vars

\* C37: notifications leave the queue in the order their updates were
\* applied, and the data handed to the callbacks is the snapshot taken at its
\* own update: an update appends the entry it has just written and leaves the
\* queued snapshots as they are, the processing thread takes the oldest
\* snapshot, and that snapshot is what the notification delivers.
C37_FifoSnapshots ==
    [][/\ Len(data_queue_') > Len(data_queue_) =>
             /\ Len(data_queue_') = Len(data_queue_) + 1
             /\ SubSeq(data_queue_', 1, Len(data_queue_)) = data_queue_
             /\ \E instrument \in DOMAIN market_data_' :
                    /\ data_queue_'[Len(data_queue_')] = market_data_'[instrument]
                    /\ \A other \in DOMAIN market_data_ \ {instrument} :
                           market_data_'[other] = market_data_[other]
             /\ pm_data' = pm_data
       /\ Len(data_queue_') < Len(data_queue_) =>
             /\ pm_data' = Head(data_queue_)
             /\ data_queue_' = Tail(data_queue_)
       /\ Len(data_queue_') = Len(data_queue_) => data_queue_' = data_queue_
       /\ NotifyStep => pm_data' = pm_data]_vars

\* a listener was handed the snapshot of an update while a later update of
\* the same instrument waits in the queue and is what the store holds
C37_Witness ==
    /\ pm_pc = "cleanup"
    /\ \E k \in 1..Len(invoked) : invoked[k].callback.owner = "Listener"
    /\ data_queue_ # <<>>
    /\ Head(data_queue_).orderbook.instrument = pm_data.orderbook.instrument
    /\ Head(data_queue_) # pm_data
    /\ pm_data.orderbook.instrument \in DOMAIN market_data_
    /\ market_data_[pm_data.orderbook.instrument] # pm_data

(***************************************************************************)
(* Price query claims                                                      *)
(***************************************************************************)
QueryStep == lastQuery' # lastQuery
\* the sides of the stored book of an instrument; none when it is unknown
SideOf(instrument, side) ==
    IF instrument \in DOMAIN market_data_
    THEN market_data_[instrument].orderbook[side] ELSE <<>>
\* the sides a query needs
Needs(fn) ==
    IF fn = "getBestBid" THEN {"bids"}
    ELSE IF fn = "getBestAsk" THEN {"asks"} ELSE {"bids", "asks"}
FirstBid(instrument) == SideOf(instrument, "bids")[1].price
FirstAsk(instrument) == SideOf(instrument, "asks")[1].price

\* C23: a price query changes nothing in the store; it fails when the
\* instrument is unknown or a side it needs is empty, and otherwise returns the
\* price of the first bid, of the first ask, their mean, or ask minus bid.
C23_PriceQueries ==
    [][QueryStep =>
         /\ UNCHANGED <<market_data_, data_queue_, subscribers_, running_, data_mutex_>>
         /\ lastQuery'.threw =
               (\E side \in Needs(lastQuery'.fn) :
                    SideOf(lastQuery'.instrument, side) = <<>>)
         /\ ~lastQuery'.threw =>
               lastQuery'.twice =
                 (IF lastQuery'.fn = "getBestBid" THEN 2 * FirstBid(lastQuery'.instrument)
                  ELSE IF lastQuery'.fn = "getBestAsk"
                       THEN 2 * FirstAsk(lastQuery'.instrument)
                  ELSE IF lastQuery'.fn = "getMidPrice"
                       THEN FirstBid(lastQuery'.instrument)
                            + FirstAsk(lastQuery'.instrument)
                  ELSE 2 * (FirstAsk(lastQuery'.instrument)
                            - FirstBid(lastQuery'.instrument)))]_vars

\* a failed getMidPrice on an instrument that has only received trades
C23_Witness ==
    /\ lastQuery.fn = "getMidPrice" /\ lastQuery.threw
    /\ lastQuery.instrument \in DOMAIN market_data_
    /\ market_data_[lastQuery.instrument].trades # <<>>
    /\ market_data_[lastQuery.instrument].orderbook.bids = <<>>
    /\ market_data_[lastQuery.instrument].orderbook.asks = <<>>

(***************************************************************************)
(* Eviction claims                                                         *)
(***************************************************************************)
\* the entry of the instrument is older than the staleness window
Stale(instrument) ==
    /\ instrument \in DOMAIN market_data_
    /\ now - market_data_[instrument].timestamp > max_age

\* C24 as stated: while the processing thread runs, an instrument whose last
\* update is older than the staleness window is eventually evicted (or
\* updated again), also when no further update of any instrument arrives.
C24_StaleEventuallyEvicted ==
    \A instrument \in Instruments :
        (running_ /\ Stale(instrument)) ~> ~Stale(instrument)

(***************************************************************************)
(* Book quality claims                                                     *)
(***************************************************************************)
Descending(levels) ==
    \A k \in 1..(Len(levels) - 1) : levels[k].price >= levels[k + 1].price
Ascending(levels) ==
    \A k \in 1..(Len(levels) - 1) : levels[k].price <= levels[k + 1].price

\* C25 as stated: every stored book has its bids sorted descending and its
\* asks sorted ascending by price, whatever the order of the levels in the
\* frames.
C25_StoredBooksSorted ==
    \A instrument \in DOMAIN market_data_ :
        /\ Descending(market_data_[instrument].orderbook.bids)
        /\ Ascending(market_data_[instrument].orderbook.asks)

\* the highest bid is at or above the lowest ask
Crossed(orderbook) ==
    \E b \in 1..Len(orderbook.bids), a \in 1..Len(orderbook.asks) :
        orderbook.bids[b].price >= orderbook.asks[a].price
\* a data-quality error was given to the application
DataQualityFlagged == errors \ RoutineErrors # {}

\* C26 as stated: a crossed book passed to updateOrderBook is stored as the
\* current book of its instrument, and it is flagged as a data-quality error.
C26_CrossedBookFlagged ==
    \A instrument \in DOMAIN lastBook :
        (Crossed(lastBook[instrument]) /\ instrument \notin evicted) =>
            /\ instrument \in DOMAIN market_data_
            /\ market_data_[instrument].orderbook = lastBook[instrument]
            /\ DataQualityFlagged

(***************************************************************************)
(* Error handler claims                                                    *)
(***************************************************************************)
LogStep == error_count_' # error_count_
Ran == lastLog'.ran
\* C31: a logError call returns; for a CRITICAL error with recovery enabled it
\* has run the registered actions in descending priority, each at most
\* max_attempts times and all of them to exhaustion unless one succeeded,
\* and nothing after the first success; otherwise it has run none.
C31_RecoveryInPriorityOrder ==
    [][LogStep =>
         /\ lastLog'.st = "returned"
         /\ ~(lastLog'.severity = "CRITICAL" /\ recovery_enabled_) => Ran = <<>>
         /\ (lastLog'.severity = "CRITICAL" /\ recovery_enabled_) =>
               /\ \A i, j \in 1..Len(Ran) : i < j => Ran[i].priority >= Ran[j].priority
               /\ \A i \in 1..Len(Ran) :
                     /\ Cardinality({j \in 1..Len(Ran) : Ran[j].index = Ran[i].index})
                           <= Ran[i].max_attempts
                     /\ Ran[i].outcome = "true" => i = Len(Ran)
               /\ (\A i \in 1..Len(Ran) : Ran[i].outcome # "true") =>
                     \A k \in 1..Len(recovery_actions_) :
                         \E i \in 1..Len(Ran) : Ran[i].index = k]_vars

(***************************************************************************)
(* WebSocket server claims                                                 *)
(***************************************************************************)
CallStep(op) == lastCall' # lastCall /\ lastCall'.op = op
\* C32: start() while running and stop() while not running change nothing:
\* no worker is spawned or joined, the subscription table and the message
\* queue stay as they are, and the call returns.
C32_StartStopIdempotent ==
    [][/\ (CallStep("start") /\ server_running_) =>
             UNCHANGED <<server_running_, worker_pc, queue_mutex_, message_queue_,
                         subscriptions_, stop_pc>>
       /\ (CallStep("stop") /\ ~server_running_) =>
             UNCHANGED <<server_running_, worker_pc, queue_mutex_, message_queue_,
                         subscriptions_, stop_pc>>]_vars

\* start() was called on a running server whose workers are in their loop
\* and which holds a subscription and a queued message
C32_Witness ==
    /\ lastCall.op = "start" /\ lastCall.was_running
    /\ server_running_
    /\ \E w \in Workers : worker_pc[w] = "waiting"
    /\ message_queue_ # <<>>
    /\ subscriptions_["BTC"] # {}

\* C35: a stop() of a running server returns: each worker sees running_
\* false, leaves its loop and is joined.
C35_StopTerminates == (stop_pc = "notify") ~> (stop_pc = "idle")

(***************************************************************************)
(* Order frame claims                                                      *)
(***************************************************************************)
PlaceStep ==
    /\ Len(calls') = Len(calls) + 1
    /\ calls'[Len(calls')].op = "placeOrder"

\* C40 as stated: the frame placeOrder sends names the method of the
\* request's side, private/buy for a buy and private/sell for a sell, and
\* carries the instrument, the size and the price of the request.
C40_MethodMatchesSide ==
    [][PlaceStep =>
          \E request \in OrderRequests :
              LET frame == sent'[Len(sent')]
              IN  /\ frame.method = IF request.side = "buy" THEN "private/buy"
                                    ELSE "private/sell"
                  /\ frame.instrument_name = request.instrument
                  /\ frame.amount = request.size
                  /\ frame.price = request.price]_vars

(***************************************************************************)
(* Session shutdown claims                                                 *)
(***************************************************************************)
\* C36: once shutdown() has been called the session is disconnected and
\* stays so: the connection it closed is the last one made, no reconnect and
\* no authentication follow.
C36_ShutdownStaysDisconnected ==
    shutdown_at # 0 => (connection = shutdown_at /\ ~is_connected_)

(***************************************************************************)
(* Configuration claims                                                    *)
(***************************************************************************)
\* C29: while the process runs, the limits getTradingConfig returns satisfy
\* the validity predicate (every size and loss limit is positive), whatever
\* loadConfig and set calls were made, failed ones included.
C29_InvalidConfigNeverInForce == Alive => validateConfig(trading_config_)

(***************************************************************************)
(* Benchmark claims                                                        *)
(***************************************************************************)
\* C30: whenever no operation of a name is under way, the successful count of
\* the name is the number of its operations ended with no error recorded and
\* the failed count is the number ended with an error recorded.
C30_CountsPartitionOperations ==
    \A operation_name \in OperationNames :
        (Known(operation_name) /\ op_open[operation_name] = "none") =>
            /\ operations_[operation_name].success_count = op_ended[operation_name].clean
            /\ operations_[operation_name].failure_count = op_ended[operation_name].failed

\* the latencies recorded under a name, none when the name is unknown
LatenciesOf(operations, operation_name) ==
    IF operation_name \in DOMAIN operations THEN operations[operation_name].latencies
    ELSE <<>>
BenchCallStep == lastBench' # lastBench
\* C34: endOperation and getLatencyMetrics return and leave metrics_mutex_
\* released, and an endOperation on a known name has added one latency to
\* those recorded under the name.
C34_BenchmarkCallsReturn ==
    [][BenchCallStep =>
         /\ lastBench'.st = "returned"
         /\ metrics_mutex_' = "free"
         /\ (lastBench'.op = "endOperation" /\ Known(lastBench'.operation_name)) =>
               Len(LatenciesOf(operations_', lastBench'.operation_name))
                 = Len(LatenciesOf(operations_, lastBench'.operation_name)) + 1]_vars

(***************************************************************************)
(* Latency recorder claims                                                 *)
(***************************************************************************)
StatsStep == lastStats' # lastStats
\* the window the statistics of the step were computed from
StatsWindow == Window(lastStats'.operation_id)

\* C27: the statistics of a window that is not empty are ordered,
\* min <= p50 <= p90 <= p99 <= max and min <= avg <= max, and min, max and
\* the three percentiles are samples of the window.
C27_StatsOrdered ==
    [][(StatsStep /\ StatsWindow # <<>>) =>
         /\ lastStats'.stats.min <= lastStats'.stats.p50
         /\ lastStats'.stats.p50 <= lastStats'.stats.p90
         /\ lastStats'.stats.p90 <= lastStats'.stats.p99
         /\ lastStats'.stats.p99 <= lastStats'.stats.max
         /\ lastStats'.stats.min <= lastStats'.stats.avg
         /\ lastStats'.stats.avg <= lastStats'.stats.max
         /\ {lastStats'.stats.min, lastStats'.stats.p50, lastStats'.stats.p90,
             lastStats'.stats.p99, lastStats'.stats.max} \subseteq Range(StatsWindow)
         /\ \A w \in Range(StatsWindow) :
               lastStats'.stats.min <= w /\ w <= lastStats'.stats.max]_vars

\* statistics of a long window whose median is not the sample recorded in
\* the middle: the sample at the p50 index of the unsorted window is its
\* largest, the reported p50 is not
C27_Witness ==
    /\ lastStats.operation_id = "order_placement"
    /\ Len(Window("order_placement")) >= max_history_size_ - 1
    /\ lastStats.stats.count = Len(Window("order_placement"))
    /\ Window("order_placement")[PercentileIndex(lastStats.stats.count, 50) + 1] = 40
    /\ lastStats.stats.min = 10
    /\ lastStats.stats.p50 = 20
    /\ lastStats.stats.max = 40

RecordStep(operation_id) == recorded'[operation_id] = recorded[operation_id] + 1
Least(a, b) == IF a <= b THEN a ELSE b

\* C28 as stated: a window never holds more than max_history_size_ samples, a
\* record call at capacity drops the oldest sample, and the reported count is
\* the smaller of the samples recorded since the last reset and
\* max_history_size_.
C28_BoundedWindow ==
    [][/\ \A operation_id \in OperationIds :
             /\ Len(Window(operation_id)') <= max_history_size_
             /\ (RecordStep(operation_id) /\ Len(Window(operation_id)) = max_history_size_)
                   => \E latency \in Samples :
                          Window(operation_id)' =
                              Append(Tail(Window(operation_id)), latency)
       /\ StatsStep =>
             lastStats'.stats.count =
                 Least(recorded[lastStats'.operation_id], max_history_size_)]_vars

HistStep == lastHist' # lastHist

\* C38 as stated: getHistoricalStats(op) always returns: for a known id the
\* one-element list holding getStats(op), for an unknown id the not-found
\* error; the windows and the capacity are as before the call.
C38_HistoricalStatsReturns ==
    [][HistStep =>
          /\ lastHist'.st =
                IF lastHist'.operation_id \in DOMAIN latency_data_
                THEN "returned" ELSE "not_found"
          /\ lastHist'.st = "returned" =>
                lastHist'.result =
                    <<calculateStats(latency_data_[lastHist'.operation_id])>>
          /\ latency_data_' = latency_data_
          /\ max_history_size_' = max_history_size_]_vars

\* the n most recent samples of a window, in arrival order
MostRecent(latencies, n) ==
    IF Len(latencies) > n
    THEN SubSeq(latencies, Len(latencies) - n + 1, Len(latencies))
    ELSE latencies

\* C39 as stated: after setHistorySize(n) every window holds at most n
\* samples, and a window that was longer keeps exactly its n most recent
\* samples in arrival order.
C39_ResizeKeepsMostRecent ==
    [][max_history_size_' # max_history_size_ =>
          \A operation_id \in DOMAIN latency_data_ :
              /\ Len(latency_data_'[operation_id]) <= max_history_size_'
              /\ latency_data_'[operation_id] =
                     MostRecent(latency_data_[operation_id], max_history_size_')]_vars

(***************************************************************************)
(* Concurrent reader claims                                                *)
(***************************************************************************)
\* C19 as stated: a reader that has used the book its getter returned has
\* seen bids and asks of one and the same book passed to updateOrderBook.
C19_ReadersSeeWholeBooks ==
    reader_view.complete =>
        \E b \in BookValues :
            /\ b.instrument = reader_ref
            /\ reader_view.bids = b.bids
            /\ reader_view.asks = b.asks

(***************************************************************************)
(* Locking claims                                                          *)
(***************************************************************************)
\* C20 as stated: no thread locks the mutex of a component while it holds
\* the mutex of another one (or its own): every mutex locked during a
\* subscriber notification is locked by a thread that holds none.
C20_NoLockHeldAcrossComponents ==
    \A acquisition \in lock_log : acquisition[2] = {}

\* C33 as stated: the thread that delivers notifications never stops inside
\* a delivery: it never locks a mutex it already holds (data_mutex_ in
\* particular), so it is neither blocked on it for ever nor ended by it, and
\* goes on to the later notifications.
C33_NotifierNeverBlocks ==
    /\ pm_pc \notin {"blocked", "terminated"}
    /\ \A acquisition \in lock_log : acquisition[1] \notin acquisition[2]

(***************************************************************************)
(* Risk Engine claims                                                      *)
(***************************************************************************)
\* the call lastRisk records, when it records a checkOrderRisk call.  Every
\* operation that changes positions, metrics or limits overwrites lastRisk, so
\* the risk state is then the one the call ran in.
RiskChecked == lastRisk.op = "checkOrderRisk"
Notional == lastRisk.size * lastRisk.price
\* the code has one exposure bound only: max_position_size (checkExposureLimit)
MaximumExposure == trading_config_.max_position_size

ExceedsSomeLimit ==
    \/ Abs(lastRisk.size) > trading_config_.max_order_size
    \/ Abs(lastRisk.size) > trading_config_.max_position_size
    \/ Notional > trading_config_.max_loss_per_trade
    \/ risk_metrics_.daily_pnl - Notional < -trading_config_.max_daily_loss
    \/ risk_metrics_.total_exposure + Notional > MaximumExposure

StrictlyUnderAllLimits ==
    /\ Abs(lastRisk.size) < trading_config_.max_order_size
    /\ Abs(lastRisk.size) < trading_config_.max_position_size
    /\ Notional < trading_config_.max_loss_per_trade
    /\ risk_metrics_.daily_pnl - Notional > -trading_config_.max_daily_loss
    /\ risk_metrics_.total_exposure + Notional < MaximumExposure

\* C3: for every risk state and every order, checkOrderRisk returns false if
\* the order exceeds any one of the four limits (on |size|, on size*price, on
\* dailyPnl - size*price, on totalExposure + size*price) and true if the order
\* is strictly under all four.
C3_DecisionFollowsLimits ==
    RiskChecked =>
        /\ (ExceedsSomeLimit => lastRisk.result = FALSE)
        /\ (StrictlyUnderAllLimits => lastRisk.result = TRUE)

\* a step in which a checkOrderRisk call ran
RiskCheckStep ==
    /\ lastRisk'.op = "checkOrderRisk"
    /\ (lastRisk' # lastRisk \/ riskRepeat' # riskRepeat)

\* the sub-checks that fail for the order of lastRisk', in the fixed order
FailingSubChecks ==
    LET o == lastRisk'
        loss == potential_loss(o.size, o.price, o.side)
        all == <<[name |-> "position", reason |-> "Position limit exceeded",
                  ok |-> checkPositionLimit(o.instrument, o.size)],
                 [name |-> "loss", reason |-> "Loss limit exceeded",
                  ok |-> checkLossLimit(loss)],
                 [name |-> "daily", reason |-> "Daily loss limit exceeded",
                  ok |-> checkDailyLossLimit(loss)],
                 [name |-> "exposure", reason |-> "Exposure limit exceeded",
                  ok |-> checkExposureLimit(risk_metrics_.total_exposure + loss)]>>
    IN  SelectSeq(all, LAMBDA c : ~c.ok)

SubCheckOrder == <<"position", "loss", "daily", "exposure">>
SubCheckIndex(name) == CHOOSE k \in 1..4 : SubCheckOrder[k] = name

\* C4: a rejecting checkOrderRisk invokes the registered risk violation
\* callback exactly once, with the order's instrument and the reason of the
\* first failing sub-check in the order position, loss, daily loss, exposure;
\* the sub-checks after the failing one are not evaluated; an approving call
\* invokes no callback.
C4_OneViolationCallback ==
    [][RiskCheckStep =>
        LET o == lastRisk'
            failing == FailingSubChecks
        IN  /\ o.result = (failing = <<>>)
            /\ o.result => o.callbacks = <<>> /\ o.evaluated = SubCheckOrder
            /\ ~o.result =>
                 /\ o.callbacks = IF risk_callback_
                                  THEN << <<o.instrument, failing[1].reason>> >>
                                  ELSE <<>>
                 /\ o.evaluated = SubSeq(SubCheckOrder, 1, SubCheckIndex(failing[1].name))
      ]_vars

\* a rejection by the daily loss limit of an order the exposure limit would
\* have refused too, reported once to the registered callback
C4_Witness ==
    /\ RiskChecked /\ lastRisk.result = FALSE /\ risk_callback_
    /\ lastRisk.callbacks = << <<lastRisk.instrument, "Daily loss limit exceeded">> >>
    /\ lastRisk.evaluated = <<"position", "loss", "daily">>
    /\ ~checkExposureLimit(risk_metrics_.total_exposure + Notional)

\* C5: checkOrderRisk is pure: a call, approving or rejecting, leaves
\* positions and risk metrics unchanged, and a call that repeats the previous
\* call's arguments in the same risk state returns the same decision.
C5_CheckIsPure ==
    [][RiskCheckStep =>
        /\ positions_' = positions_
        /\ risk_metrics_' = risk_metrics_
        /\ (riskRepeat' => lastRisk'.result = lastRisk.result)
      ]_vars

\* an approving call repeated with the same arguments, positions being held
C5_Witness ==
    /\ RiskChecked /\ riskRepeat /\ lastRisk.result = TRUE
    /\ DOMAIN positions_ # {}

RECURSIVE AbsNotionalSum(_, _)
AbsNotionalSum(positions, instruments) ==
    IF instruments = {} THEN 0
    ELSE LET i == CHOOSE x \in instruments : TRUE
             own == IF i \in DOMAIN positions
                    THEN Abs(positions[i].size * positions[i].avg_price) ELSE 0
         IN  own + AbsNotionalSum(positions, instruments \ {i})

\* C6: after every updatePosition(p) the stored position of p.instrument is
\* p as a whole, totalExposure is the sum over all stored positions of
\* |size * avgPrice|, and the positions of the other instruments are unchanged.
C6_PositionReplaced ==
    [][\A p \in PositionValues :
        UpdatePosition(p) =>
            /\ DOMAIN positions_' = DOMAIN positions_ \cup {p.instrument}
            /\ positions_'[p.instrument] = p
            /\ \A k \in DOMAIN positions_ \ {p.instrument} : positions_'[k] = positions_[k]
            /\ risk_metrics_'.total_exposure = AbsNotionalSum(positions_', Instruments)
      ]_vars

\* a position replaced while the other instrument holds one too
C6_Witness ==
    /\ lastRisk.op = "updatePosition" /\ lastRisk.result
    /\ DOMAIN positions_ = Instruments
    /\ positions_[lastRisk.instrument].size = -2
    /\ risk_metrics_.total_exposure = 150

====
